---- MODULE Spec2Model ----
(***************************************************************************)
(* Model of the BitTorrent leecher's piece scheduler (download::all) and   *)
(* of the peer session's participate state machine.                        *)
(*                                                                         *)
(* Byte buffers (piece buffer, content buffer, block data) are kept as     *)
(* run-length sequences <<[len |-> n, val |-> v], ...>>: n bytes of value  *)
(* v.  A canonical buffer has no empty run and no two adjacent runs of the *)
(* same value, so two buffers hold the same bytes iff they are equal.      *)
(***************************************************************************)
EXTENDS Integers, Sequences, FiniteSets, TLC

\* ------------------------------------------------------------------ bounds
NumPeers == 2
MaxBlocks == 2

\* --------------------------------------------------------------- constants
BLOCK_SIZE == 16384

Peers == 1..NumPeers

Min(a, b) == IF a < b THEN a ELSE b

\* ------------------------------------------------------------ byte buffers
RECURSIVE Norm(_)
Norm(rs) ==
    IF rs = <<>> THEN <<>>
    ELSE IF Head(rs).len = 0 THEN Norm(Tail(rs))
    ELSE LET rest == Norm(Tail(rs)) IN
         IF rest # <<>> /\ Head(rest).val = Head(rs).val
         THEN <<[len |-> Head(rs).len + Head(rest).len, val |-> Head(rs).val]>>
              \o Tail(rest)
         ELSE <<Head(rs)>> \o rest

RECURSIVE BufLen(_)
BufLen(rs) == IF rs = <<>> THEN 0 ELSE Head(rs).len + BufLen(Tail(rs))

\* the first n bytes of rs
RECURSIVE TakeB(_, _)
TakeB(rs, n) ==
    IF n <= 0 \/ rs = <<>> THEN <<>>
    ELSE IF Head(rs).len <= n
         THEN <<Head(rs)>> \o TakeB(Tail(rs), n - Head(rs).len)
         ELSE <<[len |-> n, val |-> Head(rs).val]>>

\* rs without its first n bytes
RECURSIVE DropB(_, _)
DropB(rs, n) ==
    IF rs = <<>> THEN <<>>
    ELSE IF n <= 0 THEN rs
    ELSE IF Head(rs).len <= n THEN DropB(Tail(rs), n - Head(rs).len)
    ELSE <<[len |-> Head(rs).len - n, val |-> Head(rs).val]>> \o Tail(rs)

\* vec![0; n]
Zeros(n) == Norm(<<[len |-> n, val |-> 0]>>)

\* buf[off..][..n]
Slice(buf, off, n) == Norm(TakeB(DropB(buf, off), n))

\* buf[off..][..data.len()].copy_from_slice(data)
CopyFromSlice(buf, off, data) ==
    Norm(TakeB(buf, off) \o data \o DropB(buf, off + BufLen(data)))

\* Sha1: a digest of the bytes of a buffer (computed over the canonical runs)
RECURSIVE Sha1Fold(_, _)
Sha1Fold(rs, h) ==
    IF rs = <<>> THEN h
    ELSE Sha1Fold(Tail(rs),
                  (h * 31 + (Head(rs).len % 1021) * 17 + Head(rs).val + 1) % 65521)
Sha1(buf) == Sha1Fold(Norm(buf), 7)

\* ---------------------------------------------------------------- metainfo
\* the torrents the download is run on: piece length and total length
\*   - a piece of MaxBlocks blocks whose last block is one byte, followed by
\*     a last piece of five bytes;
\*   - two pieces of one block each, the total a multiple of the piece length
Torrents ==
    { [plength |-> (MaxBlocks - 1) * BLOCK_SIZE + 1,
       length  |-> (MaxBlocks - 1) * BLOCK_SIZE + 1 + 5],
      [plength |-> BLOCK_SIZE, length |-> 2 * BLOCK_SIZE] }

\* t.info.pieces.0.len()
PieceCount(t) == (t.length + t.plength - 1) \div t.plength

\* the bytes the torrent describes: every byte of piece i has value i + 1
TrueByte(i) == i + 1
\* a byte that is not the torrent's at piece i
WrongByte(i) == TrueByte(i) + 1

\* Piece::length(): the effective length of piece i
PieceLen(t, i) == Min(t.plength, t.length - i * t.plength)

\* t.info.pieces.0[i]
PieceHash(t, i) == Sha1(<<[len |-> PieceLen(t, i), val |-> TrueByte(i)]>>)

\* ---------------------------------------------------------------- bitfield
\* has_piece with the bits of a byte counted from the least significant
has_piece_lsb(payload, piece_i) ==
    LET byte_i == piece_i \div 8
        bit_i  == piece_i % 8
        mask   == 2 ^ bit_i
    IN  IF byte_i + 1 > Len(payload) THEN FALSE
        ELSE (payload[byte_i + 1] \div mask) % 2 = 1

\* Bitfield::has_piece: byte & 1u8.rotate_right(bit_i + 1) != 0
has_piece(payload, piece_i) ==
    LET byte_i == piece_i \div 8
        bit_i  == piece_i % 8
        mask   == 2 ^ (7 - bit_i)
    IN  IF byte_i + 1 > Len(payload) THEN FALSE
        ELSE (payload[byte_i + 1] \div mask) % 2 = 1

\* the Bitfield payloads of the peers: none, piece 1, piece 0, both
BitfieldPayloads == { <<>>, <<64>>, <<128>>, <<192>> }
BitfieldRank(payload) == IF payload = <<>> THEN 0 ELSE payload[1] + 1

\* -------------------------------------------------------- block::Request
\* Request::new(piece_index, remaining_piece, plength)
RequestNew(piece_index, remaining_piece, plength) ==
    [piece_index |-> piece_index,
     begin       |-> plength - remaining_piece,
     length      |-> Min(BLOCK_SIZE, remaining_piece)]

\* no request outstanding
NoRequest == [piece_index |-> 0, begin |-> 0, length |-> 0]

\* ------------------------------------------------------------------- state
VARIABLES
    t,              \* the torrent: [plength, length]
    bitfield,       \* bitfield[p]: the payload of peer p's Bitfield message
    choked,         \* choked[p]: Peer::choked
    phase,          \* where download::all is: start, pop, round, verify,
                    \*   ok (returned Ok), bail (returned Err), panic
    need_pieces,    \* the heap of pieces [index, peers, length, hash]
    no_peers,       \* the pieces no peer holds
    piece,          \* the piece popped last
    tasks,          \* the work queue (submit / tasks are its two ends)
    done,           \* the result channel (finish / done are its two ends)
    part,           \* part[p]: peer p's participate future: where it is (pc),
                    \*   the piece it was given (npiece), the block index it
                    \*   took (block), the Request it wrote for it (req)
    all_blocks,     \* the piece buffer
    bytes_received,
    all_pieces,     \* the content buffer
    unchoked,       \* history: unchoked[p]: the last Choke or Unchoke read
                    \*   from p was an Unchoke
    delivered       \* history: the block indices posted this round

vars == <<t, bitfield, choked, phase, need_pieces, no_peers, piece, tasks, done,
          part, all_blocks, bytes_received, all_pieces,
          unchoked, delivered>>

sched    == <<phase, need_pieces, no_peers, piece>>
buffers  == <<all_blocks, bytes_received, all_pieces>>
history  == <<unchoked, delivered>>

\* the state of the tracker step and of the peer setup of download::all
VARIABLES
    peers,          \* the peer addresses the tracker step yielded
    tpc,            \* where the tracker step is: top (of 'transmit), send (in
                    \*   the retry loop), sleep (in tokio::time::sleep after
                    \*   a failed send_to), recv (in socket.recv), peers (the
                    \*   peers are being connected), sched (peer_list is
                    \*   built), err (returned Err), panic
    action,         \* 0: Connect, 1: Announce
    transaction_id,
    connection_id,
    attempts,
    delay,
    inbox,          \* the datagrams the socket holds
    replies,        \* how many datagrams the tracker has sent
    sends,          \* history: the send_to calls for the request at hand
    last_conn,      \* history: the connection_id of the Connect response
                    \*   received last, 0 if none was
    announced,      \* history: the connection_id of the Announce request
                    \*   sent last, 0 if none was
    addrs,          \* the peer addresses not yet tried
    connecting,     \* the Peer::new futures in progress
    peer_list       \* the sessions in peer_list

tvars == <<peers, tpc, action, transaction_id, connection_id, attempts, delay, inbox,
           replies, sends, last_conn, announced, addrs, connecting, peer_list>>

request  == <<action, transaction_id, connection_id>>
retry    == <<attempts, delay, sends>>
setup    == <<addrs, connecting, peer_list>>

\* the application of one function of the codecs to one input
VARIABLES
    op,             \* the function applied last, none at first
    input,          \* its arguments
    output          \* what it returned

cvars == <<op, input, output>>

\* no function has been applied
CodecOff ==
    /\ op = "none"
    /\ input = <<>>
    /\ output = <<>>

\* the storage of the cw20-pot contract, and the save_pot call made last
VARIABLES
    POT_SEQ,        \* Item<u64>: absent, or a u64 as four 16 bit limbs, the
                    \*   most significant first
    POTS,           \* Map<u64, Pot>: the entries of the last id saved
                    \*   before the calls of the model and of those saved by
                    \*   them
    call,           \* the save_pot call made last: its pot, its result
    calls           \* how many save_pot calls were made

pvars == <<POT_SEQ, POTS, call, calls>>

\* Item::may_load gives None: no value was saved
Absent == <<>>
\* no save_pot call was made
NoCall == [result |-> "none"]

\* the contract is not looked at
PotOff ==
    /\ POT_SEQ = Absent
    /\ POTS = <<>>
    /\ call = NoCall
    /\ calls = 0

\* one session's stream over the rounds of download::all
VARIABLES
    wire,           \* the bytes the peer has written that have not arrived
    sock,           \* the bytes that have arrived and were not read
    fut,            \* where the session's participate future is: none (no
                    \*   future exists), new (not polled yet), in
                    \*   Message::decode at the length, the id or the
                    \*   payload, at tasks.recv() (take), or about to write
                    \*   the Request of the block it took (request)
    dec,            \* the locals of that Message::decode: the bytes read
                    \*   into the field at hand (buf), length, id
    session_choked, \* Peer::choked of the session
    rounds,         \* how many rounds have called participate
    consumed,       \* history: how many bytes were read from the stream
    first_read,     \* history: consumed when the first Message::decode of
                    \*   the round began, -1 before
    lost_session,   \* history: a participate future of the session had
                    \*   returned an error when a round ended
    boundaries,     \* history: the offsets at which the peer's frames begin
    interested      \* history: how many times Interested was written to
                    \*   the session

svars == <<wire, sock, fut, dec, session_choked, rounds, consumed, first_read,
           lost_session, boundaries, interested>>

\* Message::decode has read nothing
NoDecode == [buf |-> <<>>, length |-> 0, id |-> 0]

\* the stream is not looked at
StreamOff ==
    /\ wire = <<>>
    /\ sock = <<>>
    /\ fut = "none"
    /\ dec = NoDecode
    /\ session_choked = TRUE
    /\ rounds = 0
    /\ consumed = 0
    /\ first_read = -1
    /\ interested = 0
    /\ lost_session = FALSE
    /\ boundaries = {}

\* the tracker step is over when the scheduler runs
TrackerOff ==
    /\ peers = <<>>
    /\ tpc = "sched"
    /\ action = 1
    /\ transaction_id = 0
    /\ connection_id = 0
    /\ attempts = 0
    /\ delay = 0
    /\ inbox = <<>>
    /\ replies = 0
    /\ sends = 0
    /\ last_conn = 0
    /\ announced = 0
    /\ addrs = 0
    /\ connecting = 0
    /\ peer_list = NumPeers

\* ------------------------------------------------------------------- piece
\* Piece::new(piece_i, t, peers)
PieceNew(piece_i) ==
    [index  |-> piece_i,
     peers  |-> { p \in Peers : has_piece(bitfield[p], piece_i) },
     length |-> PieceLen(t, piece_i),
     hash   |-> PieceHash(t, piece_i)]

NoPieceYet == [index |-> 0, peers |-> {}, length |-> 0, hash |-> 0]

\* impl Ord for Piece is in piece.rs, which the source tree does not hold;
\* the order is taken from the specification's section 3: fewer peers first,
\* then the lower index
Rarer(a, b) ==
    \/ Cardinality(a.peers) < Cardinality(b.peers)
    \/ Cardinality(a.peers) = Cardinality(b.peers) /\ a.index < b.index

\* need_pieces.pop() (download.rs 197): the greatest piece of the BinaryHeap
\* under impl Ord for Piece, taken to be the one Rarer than every other
HeapTop(heap) == CHOOSE a \in heap : \A b \in heap \ {a} : Rarer(a, b)

\* piece_length without the minimum: what is left of the torrent from the
\* piece on
piece_length_rest(pi) == t.length - pi.length * pi.index

\* piece_length of the round of piece pi (download.rs 198..200)
piece_length(pi) == Min(pi.length, t.length - pi.length * pi.index)

\* total_blocks of the round of piece pi (download.rs 201..205)
total_blocks(pi) ==
    IF piece_length(pi) % BLOCK_SIZE = 0
    THEN piece_length(pi) \div BLOCK_SIZE
    ELSE (piece_length(pi) \div BLOCK_SIZE) + 1

\* ------------------------------------------------------------ participants
\* no participate future of the peer exists
Idle == [pc |-> "idle", npiece |-> 0, block |-> 0, req |-> NoRequest]

\* a participate future that has not returned, polled or not: it holds a
\* sender of the work queue and a sender of the result channel
Live(p) == part[p].pc \in {"new", "wait_unchoke", "take", "request", "await_piece"}

\* the future holds a block index it took from the queue and has not posted
InFlight(p) == part[p].pc \in {"request", "await_piece"}

\* the future has returned: its locals are dropped
Returned(how) == [Idle EXCEPT !.pc = how]

\* ------------------------------------------------------------------- Init
Init ==
    /\ t \in Torrents
    \* the sessions are interchangeable: one order of the peer list stands
    \* for all its permutations
    /\ bitfield \in [Peers -> BitfieldPayloads]
    /\ \A p, q \in Peers :
          p < q => BitfieldRank(bitfield[p]) <= BitfieldRank(bitfield[q])
    /\ choked = [p \in Peers |-> TRUE]
    /\ phase = "start"
    /\ need_pieces = {}
    /\ no_peers = {}
    /\ piece = NoPieceYet
    /\ tasks = <<>>
    /\ done = <<>>
    /\ part = [p \in Peers |-> Idle]
    /\ all_blocks = <<>>
    /\ bytes_received = 0
    /\ all_pieces = <<>>
    /\ unchoked = [p \in Peers |-> FALSE]
    /\ delivered = {}
    /\ TrackerOff
    /\ CodecOff
    /\ PotOff
    /\ StreamOff

\* ------------------------------------------------------------- scheduler
\* download.rs 181..196: build the heap, assert that every piece has a peer
Start ==
    /\ phase = "start"
    /\ LET all == { PieceNew(i) : i \in 0..(PieceCount(t) - 1) }
           none == { a \in all : a.peers = {} }
       IN  /\ no_peers' = none
           /\ need_pieces' = all \ none
           /\ phase' = IF none = {} THEN "pop" ELSE "panic"
           /\ all_pieces' = IF none = {} THEN Zeros(t.length) ELSE all_pieces
    /\ UNCHANGED <<svars, pvars, cvars, tvars, t, bitfield, choked, piece, tasks, done, part, all_blocks,
                   bytes_received, history>>

\* download.rs 222..232: participate(..) called and pushed: a future that has
\* not been polled, holding its clones of the channels' ends
Spawn(p, pi) == [Idle EXCEPT !.pc = "new", !.npiece = pi.index]

\* download.rs 197..238: pop a piece, fill the work queue, create the
\* participants of the round.  None of the futures has run: they are polled
\* from the select! of the drain loop.
PopPiece ==
    /\ phase = "pop"
    /\ need_pieces # {}
    /\ LET pi == HeapTop(need_pieces) IN
       /\ need_pieces' = need_pieces \ {pi}
       /\ piece' = pi
       /\ tasks' = [k \in 1..total_blocks(pi) |-> k - 1]
       /\ part' = [p \in Peers |-> IF p \in pi.peers THEN Spawn(p, pi)
                                   ELSE part[p]]
       /\ all_blocks' = Zeros(piece_length(pi))
    /\ done' = <<>>
    /\ bytes_received' = 0
    /\ delivered' = {}
    /\ phase' = "round"
    /\ UNCHANGED <<svars, pvars, cvars, tvars, t, bitfield, choked, no_peers, all_pieces, unchoked>>

\* download.rs 197, 285: the heap is empty, download::all returns Ok
Finish ==
    /\ phase = "pop"
    /\ need_pieces = {}
    /\ phase' = "ok"
    /\ UNCHANGED <<svars, pvars, cvars, tvars, t, bitfield, choked, need_pieces, no_peers, piece, tasks, done,
                   part, buffers, history>>

\* a fault: the participants of the round are left running
DropParticipantsNone(parts) == parts

\* download.rs 266: drop(participants)
DropParticipants(parts) == [p \in Peers |-> Idle]

\* download.rs 268..275: how the round ends once the drain loop is left
RoundEnd(received, pi) ==
    IF received = piece_length(pi) THEN "verify" ELSE "bail"

\* download.rs 250..258: a block arrives on the result channel
DrainRecv ==
    /\ phase = "round"
    /\ done # <<>>
    /\ LET r == Head(done)
           n == BufLen(r.block)
       IN  IF r.begin + n > piece_length(piece)
           THEN \* the slice is out of range
                /\ phase' = "panic"
                /\ UNCHANGED <<done, part, all_blocks, bytes_received>>
           ELSE /\ done' = Tail(done)
                /\ all_blocks' = CopyFromSlice(all_blocks, r.begin, r.block)
                /\ bytes_received' = bytes_received + n
                /\ IF bytes_received + n = piece_length(piece)
                   THEN /\ phase' = RoundEnd(bytes_received + n, piece)
                        /\ part' = DropParticipants(part)
                   ELSE UNCHANGED <<phase, part>>
    /\ UNCHANGED <<svars, pvars, cvars, tvars, t, bitfield, choked, need_pieces, no_peers, piece, tasks,
                   all_pieces, history>>

\* download.rs 259..261: every sender of the result channel is gone
DrainClosed ==
    /\ phase = "round"
    /\ done = <<>>
    /\ \A p \in Peers : ~Live(p)
    /\ phase' = RoundEnd(bytes_received, piece)
    /\ part' = DropParticipants(part)
    /\ UNCHANGED <<svars, pvars, cvars, tvars, t, bitfield, choked, need_pieces, no_peers, piece, tasks, done,
                   buffers, history>>

\* a fault: the piece buffer is committed without comparing the hashes
HashMatchesAny(buf, pi) == TRUE

\* download.rs 280: assert_eq!(hash, piece.hash())
HashMatches(buf, pi) == Sha1(buf) = pi.hash

\* a fault: the offset counted in effective piece lengths
CommitOffsetEffective(pi) == pi.index * pi.length

\* download.rs 282: piece.index() * t.info.plength
CommitOffset(pi) == pi.index * t.plength

\* download.rs 277..282: hash the piece buffer, write it to the content buffer
Verify ==
    /\ phase = "verify"
    /\ IF HashMatches(all_blocks, piece)
       THEN /\ all_pieces' = CopyFromSlice(all_pieces, CommitOffset(piece),
                                           TakeB(all_blocks, piece_length(piece)))
            /\ phase' = "pop"
       ELSE /\ phase' = "panic"
            /\ UNCHANGED all_pieces
    /\ UNCHANGED <<svars, pvars, cvars, tvars, t, bitfield, choked, need_pieces, no_peers, piece, tasks, done,
                   part, all_blocks, bytes_received, history>>

\* ---------------------------------------------------------- peer wire codec
\* byte strings are sequences of numbers in 0..255; a u32 is kept as its two
\* 16 bit halves so that its arithmetic keeps its width

\* (payload.len() + 1) as u32, for the payloads of the model
U32Of(n) == [hi |-> 0, lo |-> n % 65536]

\* length - 1 on u32, when the build wraps on overflow
WrappingDec(x) ==
    IF x.lo > 0 THEN [hi |-> x.hi, lo |-> x.lo - 1]
    ELSE IF x.hi > 0 THEN [hi |-> x.hi - 1, lo |-> 65535]
    ELSE [hi |-> 65535, lo |-> 65535]

\* read_u32: the big-endian value of four bytes
ReadU32(b) == [hi |-> b[1] * 256 + b[2], lo |-> b[3] * 256 + b[4]]

\* the bytes of x, big-endian
U32BE(x) == <<x.hi \div 256, x.hi % 256, x.lo \div 256, x.lo % 256>>

\* write_u32_le: the bytes of x, little-endian
WriteU32LE(x) == <<x.lo % 256, x.lo \div 256, x.hi % 256, x.hi \div 256>>

\* whether a buffer of n bytes (n small) can be filled from avail bytes
FitsIn(x, avail) == x.hi = 0 /\ x.lo <= avail

\* a fault: the ids above 8 wrap around to the known ones
MessageIdFromWrapped(value) ==
    <<"Choke", "Unchoke", "Interested", "NotInterested", "Have", "Bitfield",
      "Request", "Piece", "Cancel">>[(value % 9) + 1]

\* peer.rs 249..264: MessageId::from(u8)
MessageIdFrom(value) ==
    CASE value = 0 -> "Choke"
      [] value = 1 -> "Unchoke"
      [] value = 2 -> "Interested"
      [] value = 3 -> "NotInterested"
      [] value = 4 -> "Have"
      [] value = 5 -> "Bitfield"
      [] value = 6 -> "Request"
      [] value = 7 -> "Piece"
      [] value = 8 -> "Cancel"
      [] OTHER -> "Error"

\* peer.rs 266..281: u8::from(MessageId), which panics on MessageId::Error
MessageIdInto(id) ==
    CASE id = "Choke" -> 0
      [] id = "Unchoke" -> 1
      [] id = "Interested" -> 2
      [] id = "NotInterested" -> 3
      [] id = "Have" -> 4
      [] id = "Bitfield" -> 5
      [] id = "Request" -> 6
      [] id = "Piece" -> 7
      [] id = "Cancel" -> 8

Drop(s, n) == SubSeq(s, n + 1, Len(s))
Take(s, n) == SubSeq(s, 1, n)

\* what Message::decode returns: a message and the bytes left in the stream,
\* an error, or a panic
Decoded(id, payload, rest) ==
    [outcome |-> "ok", id |-> id, payload |-> payload, rest |-> rest]
DecodeFailed == [outcome |-> "err", id |-> "Error", payload |-> <<>>, rest |-> <<>>]
DecodePanicked == [outcome |-> "panic", id |-> "Error", payload |-> <<>>, rest |-> <<>>]

\* peer.rs 290..307: Message::decode on a stream that holds the bytes buf and
\* is then closed; overflow_checks tells whether the build panics on
\* arithmetic overflow (debug) or wraps (release)
MessageDecode(buf, overflow_checks) ==
    IF Len(buf) < 4 THEN DecodeFailed
    ELSE LET length == ReadU32(Take(buf, 4))
             after_length == Drop(buf, 4)
         IN
         IF after_length = <<>> THEN DecodeFailed
         ELSE LET id == Head(after_length)
                  after_id == Tail(after_length)
              IN
              IF length = U32Of(0) /\ overflow_checks THEN DecodePanicked
              ELSE LET n == WrappingDec(length) IN
                   IF ~FitsIn(n, Len(after_id)) THEN DecodeFailed
                   ELSE Decoded(MessageIdFrom(id), Take(after_id, n.lo),
                                Drop(after_id, n.lo))

\* peer.rs 309..321: the bytes Message::encode writes
MessageEncode(id, payload) ==
    WriteU32LE(U32Of(Len(payload) + 1)) \o <<MessageIdInto(id)>> \o payload

\* ------------------------------------------------------------- handshake
\* b"BitTorrent protocol"
Protocol ==
    <<66, 105, 116, 84, 111, 114, 114, 101, 110, 116, 32,
      112, 114, 111, 116, 111, 99, 111, 108>>

\* b"00112233445566778899"
PeerId == <<48, 48, 49, 49, 50, 50, 51, 51, 52, 52, 53, 53, 54, 54, 55, 55,
            56, 56, 57, 57>>

\* the info hash of the torrent of the model
InfoHash == [i \in 1..20 |-> 216]

\* peer.rs 202..210: Handshake::new
HandshakeNew(info_hash) ==
    [length |-> 19, protocol |-> Protocol, reserved |-> [i \in 1..8 |-> 0],
     info_hash |-> info_hash, peer_id |-> PeerId]

\* peer.rs 222..232: Handshake::bytes
HandshakeBytes(h) ==
    <<h.length>> \o h.protocol \o h.reserved \o h.info_hash \o h.peer_id

\* peer.rs 196..198: Bitfield::from_payload
BitfieldFromPayload(payload) == [payload |-> payload]

NoSession(outcome) ==
    [outcome |-> outcome, bitfield |-> BitfieldFromPayload(<<>>), choked |-> TRUE]

\* a fault: any first message opens the session
IsAnyMessage(id) == TRUE

\* peer.rs 42: ensure!(bitfield.id == MessageId::Bitfield)
IsBitfield(id) == id = "Bitfield"

\* peer.rs 28..52: Peer::new on a connection over which the peer sends the
\* bytes reply and is then closed; connected tells whether TcpStream::connect
\* succeeded
PeerNew(connected, reply, overflow_checks) ==
    IF ~connected THEN NoSession("err")
    ELSE LET handshake == HandshakeNew(InfoHash)
             written == HandshakeBytes(handshake)
         IN
         IF Len(reply) < Len(written) THEN NoSession("err")
         ELSE LET handshake_bytes == Take(reply, Len(written))
                  stream == Drop(reply, Len(written))
              IN
              IF handshake.length # 19 THEN NoSession("err")
              ELSE IF handshake.protocol # Protocol THEN NoSession("err")
              ELSE LET first == MessageDecode(stream, overflow_checks) IN
                   IF first.outcome # "ok" THEN NoSession(first.outcome)
                   ELSE IF ~IsBitfield(first.id) THEN NoSession("err")
                   ELSE [outcome |-> "ok",
                         bitfield |-> BitfieldFromPayload(first.payload),
                         choked |-> TRUE]

\* ------------------------------------------------------- compact peers
\* a fault: the port is read little-endian
SocketAddrV4Swapped(b) ==
    [ip |-> <<b[1], b[2], b[3], b[4]>>, port |-> b[6] * 256 + b[5]]

\* SocketAddrV4::new(Ipv4Addr::new(b[0], b[1], b[2], b[3]),
\*                   u16::from_be_bytes([b[4], b[5]]))  (udp.rs 247..250,
\* http.rs 103..106)
SocketAddrV4New(b) ==
    [ip |-> <<b[1], b[2], b[3], b[4]>>, port |-> b[5] * 256 + b[6]]

\* udp.rs 243..256: read 6 bytes at a time until read_exact fails, which it
\* does when fewer than 6 bytes are left
ReadPeers(bytes) ==
    [k \in 1..(Len(bytes) \div 6) |->
        SocketAddrV4New(SubSeq(bytes, 6 * (k - 1) + 1, 6 * k))]

\* v.chunks_exact(6)
RECURSIVE ChunksExact6(_)
ChunksExact6(v) ==
    IF Len(v) < 6 THEN <<>> ELSE <<Take(v, 6)>> \o ChunksExact6(Drop(v, 6))

\* http.rs 93..111: PeersVisitor::visit_bytes
VisitBytes(v) ==
    IF Len(v) % 6 # 0 THEN [ok |-> FALSE, peers |-> <<>>]
    ELSE LET chunks == ChunksExact6(v) IN
         [ok |-> TRUE,
          peers |-> [k \in 1..Len(chunks) |-> SocketAddrV4New(chunks[k])]]

\* ------------------------------------------------------- tracker::http
\* strings are sequences of character codes

\* the characters urlencoding::encode_binary leaves as they are:
\* 0-9, A-Z, a-z, '-', '.', '_', '~'
Unreserved ==
    (48..57) \cup (65..90) \cup (97..122) \cup {45, 46, 95, 126}

\* a fault: lower-case hex digits
HexDigitLower(n) == IF n < 10 THEN 48 + n ELSE 87 + n

\* an upper-case hex digit
HexDigit(n) == IF n < 10 THEN 48 + n ELSE 55 + n

\* http.rs 36..37: urlencoding::encode_binary
RECURSIVE EncodeBinary(_)
EncodeBinary(data) ==
    IF data = <<>> THEN <<>>
    ELSE (IF Head(data) \in Unreserved THEN <<Head(data)>>
          ELSE <<37, HexDigit(Head(data) \div 16), HexDigit(Head(data) % 16)>>)
         \o EncodeBinary(Tail(data))

\* to_string() of an unsigned number
RECURSIVE DecimalString(_)
DecimalString(n) ==
    IF n < 10 THEN <<48 + n>> ELSE DecimalString(n \div 10) \o <<48 + (n % 10)>>

\* "info_hash="
InfoHashEq ==
    <<105, 110, 102, 111, 95, 104, 97, 115, 104, 61>>
\* "peer_id="
PeerIdEq ==
    <<112, 101, 101, 114, 95, 105, 100, 61>>
\* "port="
PortEq ==
    <<112, 111, 114, 116, 61>>
\* "uploaded="
UploadedEq ==
    <<117, 112, 108, 111, 97, 100, 101, 100, 61>>
\* "downloaded="
DownloadedEq ==
    <<100, 111, 119, 110, 108, 111, 97, 100, 101, 100, 61>>
\* "left="
LeftEq ==
    <<108, 101, 102, 116, 61>>
\* "compact="
CompactEq ==
    <<99, 111, 109, 112, 97, 99, 116, 61>>

\* http.rs 23..33: Request::new
HttpRequestNew(info_hash, left) ==
    [info_hash |-> info_hash, peer_id |-> PeerId, port |-> 6881,
     uploaded |-> 0, downloaded |-> 0, left |-> left, compact |-> 1]

\* http.rs 35..64: Request::url
RequestUrl(self, announce) ==
    announce \o <<63>>
    \o InfoHashEq \o EncodeBinary(self.info_hash) \o <<38>>
    \o PeerIdEq \o EncodeBinary(self.peer_id) \o <<38>>
    \o PortEq \o DecimalString(self.port) \o <<38>>
    \o UploadedEq \o DecimalString(self.uploaded) \o <<38>>
    \o DownloadedEq \o DecimalString(self.downloaded) \o <<38>>
    \o LeftEq \o DecimalString(self.left) \o <<38>>
    \o CompactEq \o DecimalString(self.compact)

\* ------------------------------------------------------- tracker::get_addr
\* "://"
SchemeSep ==
    <<58, 47, 47>>
\* "/announce"
AnnouncePath ==
    <<47, 97, 110, 110, 111, 117, 110, 99, 101>>
\* "http"
SchemeHttp ==
    <<104, 116, 116, 112>>
\* "udp"
SchemeUdp ==
    <<117, 100, 112>>

\* the first position at which pat occurs in s, 0 if it does not
Find(s, pat) ==
    LET at == { i \in 1..(Len(s) - Len(pat) + 1) :
                   SubSeq(s, i, i + Len(pat) - 1) = pat }
    IN IF at = {} THEN 0 ELSE CHOOSE i \in at : \A j \in at : i <= j

\* str::split_once(pat)
SplitOnce(s, pat) ==
    LET i == Find(s, pat) IN
    IF i = 0 THEN [found |-> FALSE, left |-> <<>>, right |-> <<>>]
    ELSE [found |-> TRUE, left |-> Take(s, i - 1),
          right |-> Drop(s, i - 1 + Len(pat))]

\* str::rsplit_once(':')
RSplitColon(s) ==
    LET at == { i \in 1..Len(s) : s[i] = 58 } IN
    IF at = {} THEN [found |-> FALSE, left |-> <<>>, right |-> <<>>]
    ELSE LET i == CHOOSE i \in at : \A j \in at : j <= i IN
         [found |-> TRUE, left |-> Take(s, i - 1), right |-> Drop(s, i)]

\* the characters of a host name that resolves: letters, digits, '.', '-'
HostChars == (48..57) \cup (65..90) \cup (97..122) \cup {45, 46}

\* str::parse::<u16>() succeeds (the ports of the model have 1..4 digits)
IsPort(s) == Len(s) \in 1..4 /\ \A i \in 1..Len(s) : s[i] \in 48..57

\* whether str::to_socket_addrs yields an address: the text after the last
\* ':' is a port and the text before it is a host that resolves
ToSocketAddrs(s) ==
    LET hp == RSplitColon(s) IN
    /\ hp.found
    /\ IsPort(hp.right)
    /\ hp.left # <<>>
    /\ \A i \in 1..Len(hp.left) : hp.left[i] \in HostChars

\* tracker/mod.rs 16..43: get_addr
GetAddr(announce) ==
    LET sp == SplitOnce(announce, SchemeSep) IN
    IF ~sp.found THEN "Err: cannot find announce"
    ELSE IF sp.left = SchemeHttp
         THEN IF ToSocketAddrs(announce) THEN "Http"
              ELSE "Err: parse socket addr"
    ELSE IF sp.left = SchemeUdp
         THEN LET ua == SplitOnce(sp.right, AnnouncePath) IN
              IF ~ua.found THEN "Err: cannot find announce"
              ELSE IF ToSocketAddrs(ua.left) THEN "Udp"
              ELSE "Err: parse socket addr"
    ELSE "Err: does not support"

\* ------------------------------------------------------- peer messages
\* what Message::decode returns to participate: a message with its id and
\* its payload (for a Piece: index, begin and the block's bytes), or an error
Msg(id, payload) == [id |-> id, index |-> 0, begin |-> 0, block |-> payload]
PieceMsg(i, b, data) == [id |-> "Piece", index |-> i, begin |-> b, block |-> data]
DecodeErr == Msg("Err", <<>>)

Run(n, v) == Norm(<<[len |-> n, val |-> v]>>)

\* the length of block b of a piece of pl bytes
BlockLen(pl, b) == Min(BLOCK_SIZE, pl - b * BLOCK_SIZE)

\* the blocks a peer may put in a Piece message that answers block b of
\* piece i: the right bytes, wrong bytes, no bytes, too few, too many
Blocks(i, pl, b) ==
    { <<>>,
      Run(BlockLen(pl, b), TrueByte(i)),
      Run(BlockLen(pl, b), WrongByte(i)),
      Run(1, TrueByte(i)),
      Run(pl, TrueByte(i)) }

\* what a read may return while p waits to be unchoked
\* a message whose id byte is above 8, with one byte of payload
UnknownIdMsg == Msg(MessageIdFrom(9), Run(1, 0))

UnchokeReads ==
    { Msg("Choke", <<>>), Msg("Unchoke", <<>>), Msg("Unchoke", Run(1, 0)),
      Msg("Have", <<>>), UnknownIdMsg, DecodeErr }

\* Piece messages for another piece or another offset than block b of piece
\* i, with and without data
StalePieces(i, pl, b) ==
    { PieceMsg(i + 1, b * BLOCK_SIZE, d) :
         d \in {Run(BlockLen(pl, b), TrueByte(i)), <<>>} }
    \cup { PieceMsg(i, (b + 1) * BLOCK_SIZE, d) :
         d \in {Run(BlockLen(pl, b), TrueByte(i)), <<>>} }

\* what a read may return while p waits for block b of piece i
PieceReads(i, pl, b) ==
    { Msg("Choke", <<>>), Msg("Unchoke", <<>>), Msg("Have", <<>>),
      UnknownIdMsg, DecodeErr }
    \cup { PieceMsg(i, b * BLOCK_SIZE, d) : d \in Blocks(i, pl, b) }
    \cup StalePieces(i, pl, b)

\* ------------------------------------------------------------ participate
\* peer.rs 106..109: the first poll of a participate future writes Interested;
\* a write that fails returns the error, one that succeeds is followed by the
\* wait for an Unchoke if the session is choked, by tasks.recv() if not
EncodeInterested(p, ok) ==
    /\ phase = "round"
    /\ part[p].pc = "new"
    /\ part' = [part EXCEPT ![p] =
                  IF ~ok THEN Returned("ret_err")
                  ELSE [@ EXCEPT !.pc = IF choked[p] THEN "wait_unchoke"
                                        ELSE "take"]]
    /\ UNCHANGED <<svars, pvars, cvars, tvars, t, bitfield, choked, sched, tasks, done, buffers, unchoked, delivered>>

\* whether the last Choke or Unchoke read was an Unchoke, after reading m
LastRead(m, was) ==
    IF m.id = "Unchoke" THEN TRUE ELSE IF m.id = "Choke" THEN FALSE ELSE was

\* peer.rs 111..119: self.choked after a message read in the while loop
ChokedWaiting(m, was) == IF m.id = "Unchoke" THEN FALSE ELSE was

\* peer.rs 109..120: read a message while choked
WaitUnchoke(p, m) ==
    /\ phase = "round"
    /\ part[p].pc = "wait_unchoke"
    /\ choked' = [choked EXCEPT ![p] = ChokedWaiting(m, @)]
    /\ part' = [part EXCEPT ![p] =
                  IF m.id = "Err" THEN Returned("ret_err")
                  ELSE IF m.id = "Unchoke"
                       THEN (IF m.block = <<>>
                             THEN [@ EXCEPT !.pc = "take"]
                             ELSE Returned("ret_err"))
                       ELSE @]
    /\ unchoked' = [unchoked EXCEPT ![p] = LastRead(m, @)]
    /\ UNCHANGED <<svars, pvars, cvars, tvars, t, bitfield, sched, tasks, done, buffers, delivered>>

\* tasks.recv() fails only when the queue is empty and no sender of it is
\* left; every participate future that has not returned holds one
\* (download.rs 228, 233)
TasksClosed == tasks = <<>> /\ \A q \in Peers : ~Live(q)

\* peer.rs 122..124: tasks.recv() takes the next block index from the work
\* queue; the Request for it is not written yet
RecvTask(p) ==
    /\ phase = "round"
    /\ part[p].pc = "take"
    /\ tasks # <<>> \/ TasksClosed
    /\ IF tasks # <<>>
       THEN /\ tasks' = Tail(tasks)
            /\ part' = [part EXCEPT ![p] = [@ EXCEPT !.pc = "request",
                                                     !.block = Head(tasks)]]
       ELSE /\ part' = [part EXCEPT ![p] = Returned("ret_ok")]
            /\ UNCHANGED tasks
    /\ UNCHANGED <<svars, pvars, cvars, tvars, t, bitfield, choked, sched, done, buffers, unchoked, delivered>>

\* peer.rs 126..129: build the Request for the block taken and write it; a
\* write that fails returns the error and the block index is dropped with
\* the future's locals
EncodeRequest(p, ok) ==
    /\ phase = "round"
    /\ part[p].pc = "request"
    /\ part' = [part EXCEPT ![p] =
                  IF ok
                  THEN [@ EXCEPT !.pc = "await_piece",
                                 !.req = RequestNew(part[p].npiece, part[p].block,
                                                    piece_length(piece))]
                  ELSE Returned("ret_err")]
    /\ UNCHANGED <<svars, pvars, cvars, tvars, t, bitfield, choked, sched, tasks, done, buffers, unchoked, delivered>>

\* a fault: a Choke read while waiting for the block leaves choked as it was
ChokedAfterIgnored(m, was) == was

\* peer.rs 138: self.choked after a message read while waiting for the block
ChokedAfter(m, was) == IF m.id = "Choke" THEN TRUE ELSE was

\* a fault: the block index is not put back
SubmitSendDropped(queue, b) == queue

\* a fault: the block index is put back twice
SubmitSendTwice(queue, b) == Append(Append(queue, b), b)

\* peer.rs 139: submit.send(block)
SubmitSend(queue, b) == Append(queue, b)

\* peer.rs 150..151: the Piece is the one the participant waits for
Wanted(m, np, b) == m.index = np /\ m.begin = b * BLOCK_SIZE

\* peer.rs 133..163: read a message while waiting for the block
AwaitPiece(p, m) ==
    /\ phase = "round"
    /\ part[p].pc = "await_piece"
    /\ LET b == part[p].block
           posts == /\ m.id = "Piece"
                    /\ m.block # <<>>
                    /\ Wanted(m, part[p].npiece, b)
           fails == m.id = "Err" \/ (m.id = "Piece" /\ m.block = <<>>)
       IN  /\ choked' = [choked EXCEPT ![p] = ChokedAfter(m, @)]
           /\ tasks' = IF m.id = "Choke" THEN SubmitSend(tasks, b) ELSE tasks
           /\ done' = IF posts
                      THEN Append(done, [index |-> m.index, begin |-> m.begin,
                                         block |-> m.block])
                      ELSE done
           /\ delivered' = IF posts THEN delivered \cup {b} ELSE delivered
           /\ part' = [part EXCEPT ![p] =
                         IF fails THEN Returned("ret_err")
                         ELSE IF m.id = "Choke"
                              THEN [Idle EXCEPT !.pc = "wait_unchoke",
                                                !.npiece = part[p].npiece]
                         ELSE IF posts
                              THEN [Idle EXCEPT !.pc = "take",
                                                !.npiece = part[p].npiece]
                         ELSE @]
    /\ unchoked' = [unchoked EXCEPT ![p] = LastRead(m, @)]
    /\ UNCHANGED <<svars, pvars, cvars, tvars, t, bitfield, sched, buffers>>

\* ------------------------------------------------------------ UDP tracker
\* download.rs 28..146: the 'transmit loop of download::all, and
\* download.rs 157..179: the connection of the peers it yields
NumTids == 2
NumConnIds == 2
MaxReplies == 3
NumAddrs == 6
\* the bytes of a stream after its length prefix, the payload of a message
MaxStream == 3
\* the peers of an HTTP tracker response
MaxHttpPeers == 3

\* download.rs 43, 83: max_retries
max_retries == 8
\* download.rs 44, 84: the first delay, in seconds
FirstDelay == 15
\* download.rs 162: buffer_unordered(5)
MaxConnecting == 5
\* download.rs 170: peer_list.len() > 5
MaxSessions == 5

\* download.rs 113: vec![0; 1206], the buffer socket.recv writes to
ResponseBufLen == 1206
\* udp.rs 223..241: action, transaction_id, interval, leechers, seeders
AnnounceHeaderLen == 4 + 4 + 4 + 4 + 4

Tids == 1..NumTids
ConnIds == 1..NumConnIds

\* what socket.recv and Response::read may yield (udp.rs 215..309)
ConnectResponse(tid, cid) == [kind |-> "Connect", tid |-> tid, cid |-> cid, n |-> 0]
AnnounceResponse(tid, n) == [kind |-> "Announce", tid |-> tid, cid |-> 0, n |-> n]
ErrorResponse(tid) == [kind |-> "Error", tid |-> tid, cid |-> 0, n |-> 0]
Malformed == [kind |-> "Malformed", tid |-> 0, cid |-> 0, n |-> 0]
RecvFailed == [kind |-> "RecvFailed", tid |-> 0, cid |-> 0, n |-> 0]

\* the compact peers of an Announce response that names n peers:
\* 10.0.0.k:6881 for k in 1..n
CompactPeers(n) ==
    [i \in 1..(6 * n) |->
        <<10, 0, 0, ((i - 1) \div 6) + 1, 26, 225>>[((i - 1) % 6) + 1]]

\* download.rs 113..116: response[20..] after socket.recv has written a
\* datagram with the compact peers tail to vec![0; 1206]
ReceiveBuffer(tail) ==
    [i \in 1..(ResponseBufLen - AnnounceHeaderLen) |->
        IF i <= Len(tail) THEN tail[i] ELSE 0]

Datagrams ==
    { ConnectResponse(tid, cid) : tid \in Tids, cid \in ConnIds }
    \cup { AnnounceResponse(tid, n) : tid \in Tids, n \in {0, NumAddrs} }
    \cup { ErrorResponse(tid) : tid \in Tids }
    \cup { Malformed, RecvFailed }

\* the scheduler has not started while the tracker step runs
SchedOff ==
    /\ t = [plength |-> BLOCK_SIZE, length |-> 2 * BLOCK_SIZE]
    /\ bitfield = [p \in Peers |-> <<>>]
    /\ choked = [p \in Peers |-> TRUE]
    /\ phase = "start"
    /\ need_pieces = {}
    /\ no_peers = {}
    /\ piece = NoPieceYet
    /\ tasks = <<>>
    /\ done = <<>>
    /\ part = [p \in Peers |-> Idle]
    /\ all_blocks = <<>>
    /\ bytes_received = 0
    /\ all_pieces = <<>>
    /\ unchoked = [p \in Peers |-> FALSE]
    /\ delivered = {}

TrackerInit ==
    /\ peers = <<>>
    /\ tpc = "top"
    /\ action = 0
    /\ transaction_id = 0
    /\ connection_id = 0
    /\ attempts = 0
    /\ delay = 0
    /\ inbox = <<>>
    /\ replies = 0
    /\ sends = 0
    /\ last_conn = 0
    /\ announced = 0
    /\ addrs = 0
    /\ connecting = 0
    /\ peer_list = 0
    /\ SchedOff
    /\ CodecOff
    /\ PotOff
    /\ StreamOff

\* download.rs 35..44, 71..84: build the request of the current action with
\* a fresh transaction id
BuildRequest(tid) ==
    /\ tpc = "top"
    /\ transaction_id' = tid
    /\ attempts' = 0
    /\ delay' = FirstDelay
    /\ sends' = 0
    /\ tpc' = "send"
    /\ UNCHANGED <<svars, pvars, cvars, vars, peers, action, connection_id, inbox, replies, last_conn, announced, setup>>

\* a fault: the Announce request is built without the connection id
AnnounceRequestBlank(cid, tid) == [connection_id |-> 0, transaction_id |-> tid]

\* udp.rs 83..98: AnnounceRequest::new(connection_id, transaction_id, ..)
AnnounceRequestNew(cid, tid) == [connection_id |-> cid, transaction_id |-> tid]

\* download.rs 48, 88: the retransmissions are used up
Exhausted(n) == n > max_retries

\* download.rs 45..62, 85..102: the head of one turn of the retry loop: the
\* test of attempts and send_to.  After a send_to that failed download::all
\* is suspended in tokio::time::sleep (tpc = "sleep").
SendAttempt(ok) ==
    /\ tpc = "send"
    /\ IF Exhausted(attempts)
       THEN /\ tpc' = "err"
            /\ UNCHANGED <<retry, announced>>
       ELSE /\ sends' = sends + 1
            /\ UNCHANGED <<attempts, delay>>
            /\ IF ok
               THEN /\ tpc' = "recv"
                    /\ announced' =
                          IF action = 1
                          THEN AnnounceRequestNew(connection_id,
                                                  transaction_id).connection_id
                          ELSE announced
               ELSE /\ tpc' = "sleep"
                    /\ UNCHANGED announced
    /\ UNCHANGED <<svars, pvars, cvars, vars, peers, request, inbox, replies, last_conn, setup>>

\* download.rs 62..66, 102..106: the sleep of `delay` seconds is over:
\* attempts += 1, delay *= 2, and the loop takes its next turn
Slept ==
    /\ tpc = "sleep"
    /\ attempts' = attempts + 1
    /\ delay' = delay * 2
    /\ tpc' = "send"
    /\ UNCHANGED sends
    /\ UNCHANGED <<svars, pvars, cvars, vars, peers, request, inbox, replies, last_conn, announced, setup>>

\* the tracker, or anyone else, sends a datagram to the socket
Deliver(d) ==
    /\ tpc \in {"send", "sleep", "recv"}
    /\ inbox = <<>>
    /\ replies < MaxReplies
    /\ inbox' = <<d>>
    /\ replies' = replies + 1
    /\ UNCHANGED <<svars, pvars, cvars, vars, peers, tpc, request, retry, last_conn, announced, setup>>

\* download.rs 124, 132: assert_eq!(.. .transaction_id.0, transaction_id)
TidMatches(d) == d.tid = transaction_id

\* download.rs 116..145: socket.recv returns, the response is read and
\* matched; with break announce_res.peers the locals of the Udp arm go out of
\* scope
Recv ==
    /\ tpc = "recv"
    /\ inbox # <<>>
    /\ LET d == Head(inbox) IN
       IF d.kind = "Announce" /\ TidMatches(d)
       THEN /\ peers' = ReadPeers(ReceiveBuffer(CompactPeers(d.n)))
            /\ addrs' = Len(peers')
            /\ tpc' = "peers"
            /\ action' = 0
            /\ transaction_id' = 0
            /\ connection_id' = 0
            /\ attempts' = 0
            /\ delay' = 0
            /\ inbox' = <<>>
            /\ replies' = 0
            /\ sends' = 0
            /\ last_conn' = 0
            /\ announced' = 0
       ELSE /\ inbox' = Tail(inbox)
            /\ tpc' = IF d.kind = "Malformed" THEN "err"
                      ELSE IF d.kind \in {"Connect", "Announce"} /\ ~TidMatches(d)
                           THEN "panic"
                      ELSE "top"
            /\ action' = IF d.kind = "Connect" /\ TidMatches(d) THEN 1 ELSE action
            /\ connection_id' = IF d.kind = "Connect" /\ TidMatches(d)
                                THEN d.cid ELSE connection_id
            /\ last_conn' = IF d.kind = "Connect" THEN d.cid ELSE last_conn
            /\ UNCHANGED <<peers, addrs, transaction_id, retry, replies, announced>>
    /\ UNCHANGED <<svars, pvars, cvars, vars, connecting, peer_list>>

\* download.rs 157..162: buffer_unordered(5) starts the next Peer::new
StartConnect ==
    /\ tpc = "peers"
    /\ addrs > 0
    /\ connecting < MaxConnecting
    /\ addrs' = addrs - 1
    /\ connecting' = connecting + 1
    /\ UNCHANGED <<svars, pvars, cvars, vars, peers, tpc, request, retry, inbox, replies, last_conn, announced, peer_list>>

\* download.rs 170: the test that ends the connecting
ListFull(n) == n > MaxSessions

\* download.rs 165..178: peers.next() yields the outcome of one Peer::new;
\* the stream yields only after it has started all the futures it may
Connected(ok) ==
    /\ tpc = "peers"
    /\ connecting > 0
    /\ connecting = MaxConnecting \/ addrs = 0
    /\ peer_list' = IF ok THEN peer_list + 1 ELSE peer_list
    /\ IF ok /\ ListFull(peer_list + 1)
       THEN tpc' = "sched" /\ connecting' = 0
       ELSE tpc' = tpc /\ connecting' = connecting - 1
    /\ UNCHANGED <<svars, pvars, cvars, vars, peers, request, retry, inbox, replies, last_conn, announced, addrs>>

\* download.rs 165, 179: peers.next() yields None
SetupDone ==
    /\ tpc = "peers"
    /\ addrs = 0
    /\ connecting = 0
    /\ tpc' = "sched"
    /\ UNCHANGED <<svars, pvars, cvars, vars, peers, request, retry, inbox, replies, last_conn, announced, setup>>

\* the steps of download::all in the tracker and peer setup
ClientNext ==
    \/ \E tid \in Tids : BuildRequest(tid)
    \/ \E ok \in BOOLEAN : SendAttempt(ok)
    \/ Slept
    \/ Recv
    \/ StartConnect
    \/ \E ok \in BOOLEAN : Connected(ok)
    \/ SetupDone

TrackerNext ==
    \/ ClientNext
    \/ \E d \in Datagrams : Deliver(d)

\* ------------------------------------------------------------------ codecs
\* the sequences over S of at most n elements
SeqsUpTo(S, n) == UNION { [1..k -> S] : k \in 0..n }

\* the frame a peer writes for a message: the length big-endian, the id, the
\* payload
Frame(id, payload) == U32BE(U32Of(Len(payload) + 1)) \o <<id>> \o payload

\* the bytes a stream may hold when Message::decode reads it: a length
\* prefix of 0..MaxStream, or a huge one, followed by at most MaxStream bytes
DecodeStreams ==
    { U32BE([hi |-> h, lo |-> n]) \o body :
         h \in {0, 256}, n \in 0..MaxStream, body \in SeqsUpTo({1, 5, 9}, MaxStream) }
    \cup { <<>>, <<0, 0>> }

MessageIds ==
    { "Choke", "Unchoke", "Interested", "NotInterested", "Have", "Bitfield",
      "Request", "Piece", "Cancel" }

\* the handshakes a peer may answer with: the right one, one with another
\* length byte, one with another protocol string, one for another torrent,
\* one cut short
Handshakes ==
    LET h == HandshakeNew(InfoHash) IN
    { HandshakeBytes(h),
      HandshakeBytes([h EXCEPT !.length = 18]),
      HandshakeBytes([h EXCEPT !.protocol = [i \in 1..19 |-> 120]]),
      HandshakeBytes([h EXCEPT !.info_hash = [i \in 1..20 |-> 7]]),
      Take(HandshakeBytes(h), 67) }

\* what a peer may send after its handshake
FirstFrames ==
    { Frame(id, payload) : id \in {1, 4, 5, 9},
                           payload \in SeqsUpTo({0, 128, 255}, MaxStream - 1) }
    \cup { <<>>, <<0, 0, 0, 0>>, <<0, 0, 0, 0, 5>>, <<0, 0, 0, 3, 5, 128>> }

\* the `peers` strings of an HTTP tracker response, of every length up to
\* MaxHttpPeers peers and one byte
HttpPeerStrings ==
    { Take(s, n) : n \in 0..(6 * MaxHttpPeers + 1),
                   s \in { <<192, 0, 2, 123, 26, 225, 127, 0, 0, 1, 26, 233>>
                              \o [i \in 1..(6 * MaxHttpPeers) |-> 250 - i],
                           [i \in 1..(6 * MaxHttpPeers + 1) |-> i] } }

\* info hashes: that of tests::test_build_tracker_url, and twenty times the
\* same byte, unreserved or not
InfoHashes ==
    { <<216, 247, 57, 206, 195, 40, 149, 108, 204, 91, 191, 31, 134, 217,
        253, 207, 219, 168, 206, 182>> }
    \cup { [i \in 1..20 |-> b] :
              b \in {0, 32, 37, 38, 45, 46, 47, 48, 57, 58, 61, 63, 64, 65, 90,
                     91, 95, 96, 97, 122, 123, 126, 127, 255} }

\* "http://bttracker.debian.org:6969/announce"
AnnounceDebian ==
    <<104, 116, 116, 112, 58, 47, 47, 98, 116, 116, 114, 97, 99, 107, 101,
      114, 46, 100, 101, 98, 105, 97, 110, 46, 111, 114, 103, 58, 54, 57, 54,
      57, 47, 97, 110, 110, 111, 117, 110, 99, 101>>

HttpRequests ==
    { HttpRequestNew(h, left) : h \in InfoHashes, left \in {0, 351272960} }
    \cup { [HttpRequestNew(h, 0) EXCEPT !.peer_id = h] : h \in InfoHashes }

\* "http://127.0.0.1:6969/announce"
UrlHttp ==
    <<104, 116, 116, 112, 58, 47, 47, 49, 50, 55, 46, 48, 46, 48, 46, 49,
    58, 54, 57, 54, 57, 47, 97, 110, 110, 111, 117, 110, 99, 101>>
\* "https://127.0.0.1:6969/announce"
UrlHttps ==
    <<104, 116, 116, 112, 115, 58, 47, 47, 49, 50, 55, 46, 48, 46, 48, 46,
    49, 58, 54, 57, 54, 57, 47, 97, 110, 110, 111, 117, 110, 99, 101>>
\* "udp://127.0.0.1:6969/announce"
UrlUdp ==
    <<117, 100, 112, 58, 47, 47, 49, 50, 55, 46, 48, 46, 48, 46, 49, 58, 54,
    57, 54, 57, 47, 97, 110, 110, 111, 117, 110, 99, 101>>
\* "udp://127.0.0.1:6969"
UrlUdpNoPath ==
    <<117, 100, 112, 58, 47, 47, 49, 50, 55, 46, 48, 46, 48, 46, 49, 58, 54,
    57, 54, 57>>
\* "udp://127.0.0.1/announce"
UrlUdpNoPort ==
    <<117, 100, 112, 58, 47, 47, 49, 50, 55, 46, 48, 46, 48, 46, 49, 47, 97,
    110, 110, 111, 117, 110, 99, 101>>
\* "udp://127.0.0.1:6969/announce/x"
UrlUdpLongPath ==
    <<117, 100, 112, 58, 47, 47, 49, 50, 55, 46, 48, 46, 48, 46, 49, 58, 54,
    57, 54, 57, 47, 97, 110, 110, 111, 117, 110, 99, 101, 47, 120>>
\* "ftp://127.0.0.1:6969/announce"
UrlFtp ==
    <<102, 116, 112, 58, 47, 47, 49, 50, 55, 46, 48, 46, 48, 46, 49, 58, 54,
    57, 54, 57, 47, 97, 110, 110, 111, 117, 110, 99, 101>>
\* "127.0.0.1:6969/announce"
UrlNoScheme ==
    <<49, 50, 55, 46, 48, 46, 48, 46, 49, 58, 54, 57, 54, 57, 47, 97, 110,
    110, 111, 117, 110, 99, 101>>
\* "http://127.0.0.1:6969"
UrlHttpNoPath ==
    <<104, 116, 116, 112, 58, 47, 47, 49, 50, 55, 46, 48, 46, 48, 46, 49,
    58, 54, 57, 54, 57>>
\* "http://127.0.0.1/announce"
UrlHttpNoPort ==
    <<104, 116, 116, 112, 58, 47, 47, 49, 50, 55, 46, 48, 46, 48, 46, 49,
    47, 97, 110, 110, 111, 117, 110, 99, 101>>
\* "wss://127.0.0.1:6969/announce"
UrlWss ==
    <<119, 115, 115, 58, 47, 47, 49, 50, 55, 46, 48, 46, 48, 46, 49, 58, 54,
    57, 54, 57, 47, 97, 110, 110, 111, 117, 110, 99, 101>>

\* the announce URLs get_addr is run on
AnnounceUrls ==
    { UrlHttp, UrlHttps, UrlUdp, UrlUdpNoPath,
      UrlUdpNoPort, UrlUdpLongPath, UrlFtp, UrlNoScheme,
      UrlHttpNoPath, UrlHttpNoPort, UrlWss }

CodecInit ==
    /\ CodecOff
    /\ TrackerOff
    /\ SchedOff
    /\ PotOff
    /\ StreamOff

\* Message::decode reads a stream
Decode(buf, overflow_checks) ==
    /\ op = "none"
    /\ op' = "decode"
    /\ input' = [buf |-> buf, overflow_checks |-> overflow_checks]
    /\ output' = MessageDecode(buf, overflow_checks)
    /\ UNCHANGED <<svars, pvars, vars, tvars>>

\* Message::encode writes a message
Encode(id, payload) ==
    /\ op = "none"
    /\ op' = "encode"
    /\ input' = [id |-> id, payload |-> payload]
    /\ output' = MessageEncode(id, payload)
    /\ UNCHANGED <<svars, pvars, vars, tvars>>

\* Peer::new talks to a peer
NewPeer(connected, reply, overflow_checks) ==
    /\ op = "none"
    /\ op' = "Peer::new"
    /\ input' = [connected |-> connected, reply |-> reply,
                 overflow_checks |-> overflow_checks]
    /\ output' = PeerNew(connected, reply, overflow_checks)
    /\ UNCHANGED <<svars, pvars, vars, tvars>>

\* the `peers` string of an HTTP tracker response is deserialized
Visit(v) ==
    /\ op = "none"
    /\ op' = "visit_bytes"
    /\ input' = v
    /\ output' = VisitBytes(v)
    /\ UNCHANGED <<svars, pvars, vars, tvars>>

\* Request::url builds the announce URL
Url(self, announce) ==
    /\ op = "none"
    /\ op' = "url"
    /\ input' = [self |-> self, announce |-> announce]
    /\ output' = RequestUrl(self, announce)
    /\ UNCHANGED <<svars, pvars, vars, tvars>>

\* get_addr reads the announce URL of the torrent
Addr(announce) ==
    /\ op = "none"
    /\ op' = "get_addr"
    /\ input' = announce
    /\ output' = GetAddr(announce)
    /\ UNCHANGED <<svars, pvars, vars, tvars>>

\* the byte arrays and the piece indices has_piece is asked about
MaxBitfieldLen == 2
BitfieldBytes == SeqsUpTo({0, 1, 64, 128, 165, 255}, MaxBitfieldLen)
PieceQueries == 0..(8 * MaxBitfieldLen + 8)

\* Bitfield::from_payload(payload).has_piece(piece_i)
HasPiece(payload, piece_i) ==
    /\ op = "none"
    /\ op' = "has_piece"
    /\ input' = [payload |-> payload, piece_i |-> piece_i]
    /\ output' = has_piece(BitfieldFromPayload(payload).payload, piece_i)
    /\ UNCHANGED <<svars, pvars, vars, tvars>>

\* download.rs 250..262: the drain loop of a round of a piece of pl bytes, run
\* on the blocks in the order they arrive on the result channel; st is
\* [all_blocks, bytes_received, outcome].  The loop is left when
\* bytes_received == piece_length ("complete"), when the channel is closed
\* ("closed"), or by the panic of a slice out of range ("panic").
RECURSIVE DrainLoop(_, _, _)
DrainLoop(st, pl, arrivals) ==
    IF arrivals = <<>> THEN [st EXCEPT !.outcome = "closed"]
    ELSE LET r == Head(arrivals)
             n == BufLen(r.block)
         IN  IF r.begin + n > pl THEN [st EXCEPT !.outcome = "panic"]
             ELSE LET spliced ==
                        [all_blocks     |-> CopyFromSlice(st.all_blocks, r.begin,
                                                          r.block),
                         bytes_received |-> st.bytes_received + n,
                         outcome        |-> st.outcome]
                  IN  IF spliced.bytes_received = pl
                      THEN [spliced EXCEPT !.outcome = "complete"]
                      ELSE DrainLoop(spliced, pl, Tail(arrivals))

\* download.rs 237..238: the piece buffer and the count before the loop
DrainStart(pl) ==
    [all_blocks |-> Zeros(pl), bytes_received |-> 0, outcome |-> "running"]

\* the piece lengths the drain loop is run on: two full blocks, and two full
\* blocks and a byte
DrainPieces == { 2 * BLOCK_SIZE, 2 * BLOCK_SIZE + 1 }

\* peer.rs 142..157: the Responses a participant may post for block b of
\* piece 0 of pl bytes: the data is not empty, begin is b * BLOCK_SIZE; the
\* data is the block's bytes, other bytes of the same length, or other bytes
\* one more than the block's length
Posted(pl, b) ==
    { [index |-> 0, begin |-> b * BLOCK_SIZE, block |-> data] :
        data \in { Run(BlockLen(pl, b), TrueByte(0)),
                   Run(BlockLen(pl, b), WrongByte(0)),
                   Run(BlockLen(pl, b) + 1, WrongByte(0)) } }

\* the block indices of a piece of pl bytes
BlocksOf(pl) == 0..(((pl + BLOCK_SIZE - 1) \div BLOCK_SIZE) - 1)

\* the orders in which blocks of different block indices may arrive
Arrivals(pl) ==
    { q \in SeqsUpTo(UNION { Posted(pl, b) : b \in BlocksOf(pl) },
                     Cardinality(BlocksOf(pl))) :
        \A j, k \in 1..Len(q) : j # k => q[j].begin # q[k].begin }

\* the drain loop of one round
Drain(pl, arrivals) ==
    /\ op = "none"
    /\ op' = "drain"
    /\ input' = [piece_length |-> pl, arrivals |-> arrivals]
    /\ output' = DrainLoop(DrainStart(pl), pl, arrivals)
    /\ UNCHANGED <<svars, pvars, vars, tvars>>

\* download.rs 318..324: DownloadedIter::new
DownloadedIterNew(d) == [file_iter |-> d.files, offset |-> 0]

\* download.rs 330..334: DownloadedIter::next on the iterator self over the
\* Downloaded d: None, or the item and the iterator after the call
DownloadedIterNext(d, self) ==
    IF self.file_iter = <<>> THEN [some |-> FALSE, self |-> self]
    ELSE LET file == Head(self.file_iter) IN
         [some  |-> TRUE,
          file  |-> file,
          bytes |-> SubSeq(d.bytes, self.offset + 1, self.offset + file.length),
          self  |-> [file_iter |-> Tail(self.file_iter),
                     offset    |-> self.offset]]

\* the items a for loop over &d sees
RECURSIVE Collect(_, _)
Collect(d, self) ==
    LET item == DownloadedIterNext(d, self) IN
    IF ~item.some THEN <<>>
    ELSE <<[file |-> item.file, bytes |-> item.bytes]>> \o Collect(d, item.self)

\* the files of a torrent: up to MaxFiles files of up to MaxFileLen bytes,
\* the path of the k-th file being k
MaxFiles == 3
MaxFileLen == 2
FileLists ==
    { [k \in 1..Len(ls) |-> [length |-> ls[k], path |-> k]] :
        ls \in SeqsUpTo(0..MaxFileLen, MaxFiles) \ {<<>>} }

\* the sum of the lengths of the files
RECURSIVE TotalLength(_)
TotalLength(files) ==
    IF files = <<>> THEN 0 ELSE Head(files).length + TotalLength(Tail(files))

\* download.rs 285..294: the Downloaded of a torrent of these files: the
\* content buffer has the total length; its byte at offset k has value k + 1
DownloadedOf(files) ==
    [bytes |-> [k \in 1..TotalLength(files) |-> k], files |-> files]

\* for file in &downloaded
Iterate(d) ==
    /\ op = "none"
    /\ op' = "into_iter"
    /\ input' = d
    /\ output' = Collect(d, DownloadedIterNew(d))
    /\ UNCHANGED <<svars, pvars, vars, tvars>>

CodecNext ==
    \/ \E files \in FileLists : Iterate(DownloadedOf(files))
    \/ \E pl \in DrainPieces : \E q \in Arrivals(pl) : Drain(pl, q)
    \/ \E b \in BitfieldBytes, i \in PieceQueries : HasPiece(b, i)
    \/ \E buf \in DecodeStreams, c \in BOOLEAN : Decode(buf, c)
    \/ \E id \in MessageIds, payload \in SeqsUpTo({0, 5, 255}, MaxStream) :
          Encode(id, payload)
    \/ \E connected \in BOOLEAN, h \in Handshakes, f \in FirstFrames,
          c \in BOOLEAN : NewPeer(connected, h \o f, c)
    \/ \E v \in HttpPeerStrings : Visit(v)
    \/ \E self \in HttpRequests : Url(self, AnnounceDebian)
    \/ \E a \in AnnounceUrls : Addr(a)

\* ---------------------------------------------------------------- cw20-pot
\* state.rs 20..29.  A u64 is kept as four 16 bit limbs, the most
\* significant first, so that its arithmetic keeps its width.
MaxSaves == 4

U64Zero == <<0, 0, 0, 0>>
U64Max == <<65535, 65535, 65535, 65535>>
Front(x) == SubSeq(x, 1, Len(x) - 1)
Last(x) == x[Len(x)]

\* x + 1 with the carry going up the limbs; all limbs zero after the last
\* carry
RECURSIVE LimbsInc(_)
LimbsInc(x) ==
    IF x = <<>> THEN <<>>
    ELSE IF Last(x) = 65535 THEN LimbsInc(Front(x)) \o <<0>>
    ELSE Front(x) \o <<Last(x) + 1>>

\* a fault: the increment wraps around
U64WrappingAdd1(x) == [ok |-> TRUE, value |-> LimbsInc(x)]

\* state.rs 25: Uint64::new(id).checked_add(Uint64::new(1))
U64CheckedAdd1(x) ==
    IF x = U64Max THEN [ok |-> FALSE, value |-> x]
    ELSE [ok |-> TRUE, value |-> LimbsInc(x)]

\* state.rs 13..18: the pots passed to save_pot
Pots ==
    { [target_addr |-> "a", threshold |-> 10, collected |-> 0],
      [target_addr |-> "b", threshold |-> 0, collected |-> 5] }

\* Map::save: the map with pot under id
MapSave(map, id, pot) ==
    [i \in (DOMAIN map) \cup {id} |-> IF i = id THEN pot ELSE map[i]]

\* the values of POT_SEQ the calls start from: not saved yet, as saved at
\* first, before a carry from the lowest limb, and two below the greatest
PotSeqStarts ==
    { Absent, U64Zero, <<0, 0, 0, 65535>>,
      <<65535, 65535, 65535, 65535 - 2>> }

PotInit ==
    /\ POT_SEQ \in PotSeqStarts
    /\ \/ POT_SEQ \in {Absent, U64Zero} /\ POTS = <<>>
       \/ /\ POT_SEQ \notin {Absent, U64Zero}
          /\ \E pot \in Pots : POTS = MapSave(<<>>, POT_SEQ, pot)
    /\ call = NoCall
    /\ calls = 0
    /\ SchedOff
    /\ TrackerOff
    /\ CodecOff
    /\ StreamOff

\* state.rs 23..29: save_pot(deps, pot)
SavePot(pot) ==
    /\ calls < MaxSaves
    /\ calls' = calls + 1
    /\ IF POT_SEQ = Absent
       THEN \* POT_SEQ.load(deps.storage)?
            /\ call' = [pot |-> pot, result |-> "Err"]
            /\ UNCHANGED <<POT_SEQ, POTS>>
       ELSE LET id == U64CheckedAdd1(POT_SEQ) IN
            IF ~id.ok
            THEN \* checked_add(..)?
                 /\ call' = [pot |-> pot, result |-> "Err"]
                 /\ UNCHANGED <<POT_SEQ, POTS>>
            ELSE /\ POT_SEQ' = id.value
                 /\ POTS' = MapSave(POTS, id.value, pot)
                 /\ call' = [pot |-> pot, result |-> "Ok"]
    /\ UNCHANGED <<svars, vars, tvars, cvars>>

PotNext == \E pot \in Pots : SavePot(pot)

PotSpec == PotInit /\ [][PotNext]_<<vars, tvars, cvars, pvars, svars>>

\* ------------------------------------------------- a stream over the rounds
\* peer.rs 106..141 and 290..307, download.rs 207..232 and 266: the
\* participate futures of one session, round after round, seen from the
\* session's stream.  The bytes of the peer's frames arrive in any
\* fragments; a read takes what has arrived, up to what the field needs.
MaxFrames == 2
MaxRounds == 2

\* the frames the peer writes: Choke, Unchoke, Have of piece 1
StreamFrames == { Frame(0, <<>>), Frame(1, <<>>), Frame(4, <<0, 0, 0, 1>>) }

RECURSIVE Concat(_)
Concat(q) == IF q = <<>> THEN <<>> ELSE Head(q) \o Concat(Tail(q))

\* the offsets at which the frames of q begin, and the offset after the last
FrameStarts(q) == { Len(Concat(SubSeq(q, 1, k))) : k \in 0..Len(q) }

StreamInit ==
    /\ \E q \in SeqsUpTo(StreamFrames, MaxFrames) \ {<<>>} :
          /\ wire = Concat(q)
          /\ boundaries = FrameStarts(q)
    /\ sock = <<>>
    /\ fut = "none"
    /\ dec = NoDecode
    /\ session_choked = TRUE
    /\ rounds = 0
    /\ consumed = 0
    /\ first_read = -1
    /\ interested = 0
    /\ lost_session = FALSE
    /\ SchedOff
    /\ TrackerOff
    /\ CodecOff
    /\ PotOff

\* n more bytes of the peer's frames arrive
StreamArrive(n) ==
    /\ n \in 1..Len(wire)
    /\ sock' = sock \o SubSeq(wire, 1, n)
    /\ wire' = SubSeq(wire, n + 1, Len(wire))
    /\ UNCHANGED <<fut, dec, session_choked, rounds, consumed, first_read,
                   lost_session, boundaries, interested>>
    /\ UNCHANGED <<vars, tvars, cvars, pvars>>

\* consumed when the first Message::decode of the round begins
FirstRead(was, now) == IF was = -1 THEN now ELSE was

\* download.rs 222..232: the round calls participate on the session and
\* pushes the future, which has not been polled
StreamSpawn ==
    /\ fut = "none"
    /\ rounds < MaxRounds
    /\ rounds' = rounds + 1
    /\ fut' = "new"
    /\ first_read' = -1
    /\ dec' = NoDecode
    /\ UNCHANGED <<wire, sock, session_choked, consumed, lost_session,
                   boundaries, interested>>
    /\ UNCHANGED <<vars, tvars, cvars, pvars>>

\* peer.rs 106: the number of times Interested was written to a session,
\* after one more Message::encode(.., MessageId::Interested, ..)
InterestedWritten(n) == n + 1

\* peer.rs 106..110: the first poll of the future writes Interested; a write
\* that fails returns the error, one that succeeds is followed by a
\* Message::decode if the session is choked, by tasks.recv() if not
StreamInterested(ok) ==
    /\ fut = "new"
    /\ IF ok
       THEN /\ interested' = InterestedWritten(interested)
            /\ fut' = IF session_choked THEN "length" ELSE "take"
            /\ first_read' = IF session_choked THEN consumed ELSE first_read
       ELSE /\ fut' = "ret_err"
            /\ UNCHANGED <<interested, first_read>>
    /\ UNCHANGED <<wire, sock, dec, session_choked, rounds, consumed,
                   lost_session, boundaries>>
    /\ UNCHANGED <<vars, tvars, cvars, pvars>>

\* peer.rs 122..124: tasks.recv() yields a block index
StreamTake ==
    /\ fut = "take"
    /\ fut' = "request"
    /\ UNCHANGED <<wire, sock, dec, session_choked, rounds, consumed,
                   first_read, lost_session, boundaries, interested>>
    /\ UNCHANGED <<vars, tvars, cvars, pvars>>

\* peer.rs 126..134: the Request is written and a Message::decode begins; a
\* write that fails returns the error
StreamRequest(ok) ==
    /\ fut = "request"
    /\ IF ok
       THEN /\ fut' = "length"
            /\ first_read' = FirstRead(first_read, consumed)
       ELSE /\ fut' = "ret_err"
            /\ UNCHANGED first_read
    /\ dec' = NoDecode
    /\ UNCHANGED <<wire, sock, session_choked, rounds, consumed, lost_session,
                   boundaries, interested>>
    /\ UNCHANGED <<vars, tvars, cvars, pvars>>

\* how many bytes the field Message::decode is at needs
Needs(where, d) ==
    IF where = "length" THEN 4
    ELSE IF where = "id" THEN 1
    ELSE (d.length.hi * 65536 + d.length.lo) - 1

\* peer.rs 110..119, 135..141: where participate goes on a whole message
\* with this id: an Unchoke awaited leaves the loop for tasks.recv(), a
\* Choke while waiting for a block goes back to waiting for an Unchoke, any
\* other message is followed by the next Message::decode
AfterMessage(id, was_choked) ==
    IF was_choked /\ MessageIdFrom(id) = "Unchoke"
    THEN [at |-> "take", choked |-> FALSE]
    ELSE IF ~was_choked /\ MessageIdFrom(id) = "Choke"
    THEN [at |-> "length", choked |-> TRUE]
    ELSE [at |-> "length", choked |-> was_choked]

\* peer.rs 295..300: read_u32, read_u8, read_exact take the bytes that have
\* arrived, up to the end of the field; a field that is full is decoded and
\* the next one begins.  A length of 0 makes length - 1 overflow: a build
\* with overflow checks panics, one without them allocates 2^32 - 1 bytes and
\* reads into them whatever arrives (alloc).
StreamRead(overflow_checks) ==
    /\ fut \in {"length", "id", "payload", "alloc"}
    /\ sock # <<>>
    /\ IF fut = "alloc"
       THEN /\ sock' = <<>>
            /\ consumed' = consumed + Len(sock)
            /\ UNCHANGED <<fut, dec, session_choked>>
       ELSE LET k    == Min(Len(sock), Needs(fut, dec) - Len(dec.buf))
                buf  == dec.buf \o SubSeq(sock, 1, k)
                full == Len(buf) = Needs(fut, dec)
                whole == \/ fut = "payload" /\ full
                         \/ fut = "id" /\ full
                              /\ Needs("payload", dec) = 0
                id   == IF fut = "id" THEN buf[1] ELSE dec.id
                next == AfterMessage(id, session_choked)
            IN  /\ sock' = SubSeq(sock, k + 1, Len(sock))
                /\ consumed' = consumed + k
                /\ IF whole
                   THEN /\ fut' = next.at
                        /\ session_choked' = next.choked
                        /\ dec' = NoDecode
                   ELSE /\ UNCHANGED session_choked
                        /\ IF ~full
                           THEN /\ fut' = fut
                                /\ dec' = [dec EXCEPT !.buf = buf]
                           ELSE IF fut = "length"
                           THEN /\ fut' = "id"
                                /\ dec' = [buf |-> <<>>,
                                           length |-> ReadU32(buf), id |-> 0]
                           ELSE /\ fut' = IF dec.length # U32Of(0) THEN "payload"
                                          ELSE IF overflow_checks THEN "panic"
                                          ELSE "alloc"
                                /\ dec' = [dec EXCEPT !.buf = <<>>, !.id = id]
    /\ UNCHANGED <<wire, rounds, first_read, lost_session, boundaries,
                   interested>>
    /\ UNCHANGED <<vars, tvars, cvars, pvars>>

\* peer.rs 110, 136: the peer has closed the connection after the bytes it
\* wrote; the read of Message::decode fails and `?` returns the error from
\* participate
StreamClosed ==
    /\ fut \in {"length", "id", "payload", "alloc"}
    /\ wire = <<>>
    /\ sock = <<>>
    /\ fut' = "ret_err"
    /\ dec' = NoDecode
    /\ UNCHANGED <<wire, sock, session_choked, rounds, consumed, first_read,
                   lost_session, boundaries, interested>>
    /\ UNCHANGED <<vars, tvars, cvars, pvars>>

\* download.rs 241..248, 256..266: the round is over.  A participate future
\* that has returned was taken out of the set, its result looked at by no
\* one; one still running is dropped where it is, and with it the bytes its
\* Message::decode has read.  The session stays in `peers`.
StreamDrop ==
    /\ fut \notin {"none", "panic"}
    /\ fut' = "none"
    /\ dec' = NoDecode
    /\ lost_session' = (lost_session \/ fut = "ret_err")
    /\ UNCHANGED <<wire, sock, session_choked, rounds, consumed, first_read,
                   boundaries, interested>>
    /\ UNCHANGED <<vars, tvars, cvars, pvars>>

StreamNext ==
    \/ \E n \in 1..(MaxFrames * 9) : StreamArrive(n)
    \/ StreamSpawn
    \/ \E ok \in BOOLEAN : StreamInterested(ok)
    \/ StreamTake
    \/ \E ok \in BOOLEAN : StreamRequest(ok)
    \/ \E c \in BOOLEAN : StreamRead(c)
    \/ StreamClosed
    \/ StreamDrop

StreamSpec == StreamInit /\ [][StreamNext]_<<vars, tvars, cvars, pvars, svars>>

\* ------------------------------------------------------------------- Next
Next ==
    \/ Start
    \/ PopPiece
    \/ Finish
    \/ DrainRecv
    \/ DrainClosed
    \/ Verify
    \/ \E p \in Peers : \E m \in UnchokeReads : WaitUnchoke(p, m)
    \/ \E p \in Peers, ok \in BOOLEAN : EncodeInterested(p, ok)
    \/ \E p \in Peers : RecvTask(p)
    \/ \E p \in Peers, ok \in BOOLEAN : EncodeRequest(p, ok)
    \/ \E p \in Peers :
         \E m \in PieceReads(part[p].npiece, piece_length(piece), part[p].block) :
            AwaitPiece(p, m)

Spec == Init /\ [][Next]_<<vars, tvars, cvars, pvars, svars>>

TrackerSpec == TrackerInit /\ [][TrackerNext]_<<vars, tvars, cvars, pvars, svars>>

CodecSpec == CodecInit /\ [][CodecNext]_<<vars, tvars, cvars, pvars, svars>>

\* ------------------------------------------------------------------ claims
PieceIndices == 0..(PieceCount(t) - 1)
BlockIndices == 0..(total_blocks(piece) - 1)
Range(q) == { q[k] : k \in 1..Len(q) }

\* the work queue of n entries from which block indices were only taken:
\* the last n block indices, ascending
Untouched(n) == [k \in 1..n |-> total_blocks(piece) - n + k - 1]

\* a block index was put back: the queue is not what taking alone leaves
PutBack == phase = "round" /\ tasks # Untouched(Len(tasks))

\* the bytes of blocks posted and not yet spliced
RECURSIVE Pending(_)
Pending(q) == IF q = <<>> THEN 0 ELSE BufLen(Head(q).block) + Pending(Tail(q))

\* the content buffer's bytes of piece i
Content(i) == Slice(all_pieces, i * t.plength, PieceLen(t, i))

\* C1: the content buffer holds, for every piece, either the zeros it was
\* created with or bytes whose SHA-1 is the piece's expected hash; and when
\* download::all has returned Ok every piece's bytes hash to pieces[i].
C1_ContentIsVerified ==
    /\ \A i \in PieceIndices :
          \/ all_pieces = <<>>
          \/ Content(i) = Zeros(PieceLen(t, i))
          \/ Sha1(Content(i)) = PieceHash(t, i)
    /\ phase = "ok" => \A i \in PieceIndices : Sha1(Content(i)) = PieceHash(t, i)

\* download::all returned Ok for the torrent of two pieces, the first of
\* several blocks
C1_Witness ==
    /\ phase = "ok"
    /\ PieceCount(t) = 2
    /\ t.plength > BLOCK_SIZE

\* C2 (as claimed): when the SHA-1 of the assembled piece differs from the
\* expected hash, the content buffer is left as it is, the piece is back on
\* the heap and the scheduler goes on to pop the next piece.
C2_MismatchReenqueues ==
    [][(phase = "verify" /\ ~HashMatches(all_blocks, piece))
         => /\ all_pieces' = all_pieces
            /\ \E a \in need_pieces' : a.index = piece.index
            /\ phase' = "pop"]_vars

\* C3 (as claimed): when the drain loop is left with
\* bytes_received < piece_length, the piece is back on the heap.
C3_IncompleteReenqueued ==
    [][(/\ phase = "round"
        /\ phase' # "round"
        /\ done = <<>>
        /\ bytes_received # piece_length(piece))
         => \E a \in need_pieces' : a.index = piece.index]_vars

\* C4: participate futures exist only during a round, every one of them is
\* for the piece popped last, and so is every outstanding Request and every
\* block on the result channel; between two rounds no future is left.
C4_OnePieceAtATime ==
    /\ \A p \in Peers :
          part[p].pc # "idle" =>
             /\ phase \in {"round", "panic"}
             /\ part[p].pc \in {"ret_ok", "ret_err"} \/ part[p].npiece = piece.index
             /\ part[p].pc = "await_piece" => part[p].req.piece_index = piece.index
    /\ \A k \in 1..Len(done) : phase = "round" => done[k].index = piece.index

\* the second round of a download: a participant has a Request outstanding
\* for piece 1 after piece 0 was committed
C4_Witness ==
    /\ phase = "round"
    /\ piece.index = 1
    /\ need_pieces = {}
    /\ Sha1(Content(0)) = PieceHash(t, 0)
    /\ \E p \in Peers : part[p].pc = "await_piece"

\* C5: choked[p] is true exactly when no Unchoke was read from p yet or the
\* last Choke / Unchoke read from p was a Choke; and a participate future
\* that is about to take a block index or to write the Request for it, or
\* has written one and waits for the block, belongs to a session that is
\* not choked.
C5_ChokedFollowsMessages ==
    \A p \in Peers :
       /\ choked[p] = ~unchoked[p]
       /\ part[p].pc \in {"take", "request", "await_piece"} => ~choked[p]

\* a session was choked again while it waited for a block and put the
\* block back; one session waits for an Unchoke, another one has a Request
\* outstanding
C5_Witness ==
    /\ PutBack
    /\ \E p, q \in Peers :
          /\ part[p].pc = "wait_unchoke" /\ choked[p]
          /\ part[q].pc = "await_piece" /\ ~choked[q]

\* C6 (as claimed): the Request written for block b has begin = b * 16384
\* and length = the length of block b.
C6_RequestOffsets ==
    \A p \in Peers :
       part[p].pc = "await_piece" =>
          /\ part[p].req.begin = part[p].block * BLOCK_SIZE
          /\ part[p].req.length = BlockLen(piece_length(piece), part[p].block)

\* C7: a step in which a participant that waits for block b reads a Choke
\* sets choked, appends b to the work queue, posts nothing, and leaves b
\* undelivered.
C7_ChokeRequeues ==
    [][\A p \in Peers :
          (InFlight(p) /\ unchoked[p] /\ ~unchoked'[p])
             => /\ choked'[p]
                /\ tasks' = Append(tasks, part[p].block)
                /\ done' = done
                /\ part[p].block \notin delivered'
                /\ part'[p].pc = "wait_unchoke"]_vars

\* a participant read a Choke while it waited for block 0 and put it back
\* behind the blocks that were on the queue; it waits for an Unchoke, block 0
\* is the last entry of the queue and another block has been posted
C7_Witness ==
    /\ PutBack
    /\ total_blocks(piece) > 1
    /\ \E p \in Peers : part[p].pc = "wait_unchoke" /\ choked[p]
    /\ tasks[Len(tasks)] = 0
    /\ delivered # {}
    /\ 0 \notin delivered

\* C8 (as claimed): when a participant that holds block b returns an error,
\* b is on the work queue.
C8_ErroredBlockOnQueue ==
    [][\A p \in Peers :
          (InFlight(p) /\ part'[p].pc = "ret_err")
             => part[p].block \in Range(tasks')]_vars

\* C9 (as claimed): a round never comes to a halt: while the drain loop runs,
\* some step of the scheduler or of a participant is possible.
C9_RoundNeverHalts == phase = "round" => ENABLED Next

\* C10 (as claimed): a participant that is to take the next block index and
\* finds the work queue empty can go on (and return Ok).
C10_EmptyQueueReturns ==
    \A p \in Peers :
       (phase = "round" /\ part[p].pc = "take" /\ tasks = <<>>)
          => ENABLED RecvTask(p)

\* the stale Piece messages participant p may read while it waits
StaleFor(p) == StalePieces(part[p].npiece, piece_length(piece), part[p].block)

\* C11 (as claimed): a step in which a participant that waits for block b of
\* piece p reads a Piece for another piece or another offset posts nothing
\* and leaves the participant waiting for the same block.
C11_StaleIgnored ==
    [][\A p \in Peers : \A m \in StaleFor(p) :
          AwaitPiece(p, m) => (done' = done /\ part'[p] = part[p])]_vars

\* C12 (as claimed): over the life of a session the Interested message is
\* written to the peer at most once.
C12_InterestedOnce == interested <= 1

\* C15 (as claimed): when some piece has no holder and some other piece has
\* one, download::all does not stop at the construction of the heap.
C15_NoPeerPieceDeferred ==
    (no_peers # {} /\ need_pieces # {}) => phase # "panic"

\* C14 (as claimed): at most 5 connection attempts are in progress and the
\* peer list never holds more than 5 sessions.
C14_AtMostFiveSessions == connecting <= 5 /\ peer_list <= 5

\* C16: an Announce request was sent only after a Connect response was
\* received, and the Announce request that awaits its response carries the
\* connection_id of the Connect response received last.
C16_AnnounceAfterConnect ==
    /\ announced # 0 => last_conn # 0
    /\ action = 0 => announced = 0
    /\ (tpc = "recv" /\ action = 1) => announced = last_conn

\* an Announce request with the connection id of the Connect response awaits
\* its response
C16_Witness ==
    /\ tpc = "recv"
    /\ action = 1
    /\ last_conn = NumConnIds
    /\ announced = last_conn

\* C17 (as claimed): at most 8 send attempts are made for one request.
C17_EightAttempts == sends <= 8

\* C18 (as claimed): while the client waits for a response and none has
\* arrived, it can go on by itself (retransmit, or give up).
C18_NeverWaitsForever == (tpc = "recv" /\ inbox = <<>>) => ENABLED ClientNext

\* C19 (as claimed): reading a response whose transaction_id is not that of
\* the outstanding request leaves action and connection_id as they are,
\* yields no peers and does not end the announce.
C19_MismatchDiscarded ==
    [][(Recv /\ Head(inbox).kind \in {"Connect", "Announce", "Error"}
             /\ Head(inbox).tid # transaction_id)
         => /\ action' = action
            /\ connection_id' = connection_id
            /\ tpc' \notin {"peers", "err", "panic"}]_tvars

\* C20 (as claimed): reading an Error response while action is Announce sets
\* action back to Connect.
C20_ErrorFallsBack ==
    [][(Recv /\ action = 1 /\ Head(inbox).kind = "Error") => action' = 0]_tvars

\* C21 (as claimed): an Announce response that carries zero peers is not
\* passed on as a success: reading it does not take download::all on to the
\* connection of peers.
C21_ZeroPeersNotPassedOn ==
    [][(Recv /\ Head(inbox).kind = "Announce" /\ Head(inbox).n = 0)
         => tpc' # "peers"]_tvars

\* C22 (as claimed): the peer list taken from an Announce response that
\* names N compact peers has exactly those N entries, in order.
C22_ExactlyTheDatagramPeers ==
    [][(Recv /\ Head(inbox).kind = "Announce" /\ TidMatches(Head(inbox)))
         => peers' = [k \in 1..Head(inbox).n |->
                         [ip |-> <<10, 0, 0, k>>, port |-> 6881]]]_tvars

\* C23: a `peers` string of 6*N bytes is decoded to N addresses, the k-th
\* with bytes 6k..6k+3 as its octets and bytes 6k+4..6k+5 as its big-endian
\* port; a string of any other length is rejected.
C23_PeersDecoded ==
    op = "visit_bytes" =>
        IF Len(input) % 6 = 0
        THEN /\ output.ok
             /\ Len(output.peers) = Len(input) \div 6
             /\ \A k \in 1..(Len(input) \div 6) :
                   /\ output.peers[k].ip =
                         <<input[6 * k - 5], input[6 * k - 4],
                           input[6 * k - 3], input[6 * k - 2]>>
                   /\ output.peers[k].port =
                         input[6 * k - 1] * 256 + input[6 * k]
        ELSE ~output.ok

\* the string of tests::test_request_peers is decoded to 192.0.2.123:6881
\* and 127.0.0.1:6889
C23_Witness ==
    /\ op = "visit_bytes"
    /\ input = <<192, 0, 2, 123, 26, 225, 127, 0, 0, 1, 26, 233>>
    /\ output.ok
    /\ output.peers = <<[ip |-> <<192, 0, 2, 123>>, port |-> 6881],
                        [ip |-> <<127, 0, 0, 1>>, port |-> 6889]>>

\* "0123456789ABCDEF"
UpperHex ==
    <<48, 49, 50, 51, 52, 53, 54, 55, 56, 57, 65, 66, 67, 68, 69, 70>>

\* a byte as the claim wants it in the URL
PercentByte(b) ==
    IF b \in Unreserved THEN <<b>>
    ELSE <<37, UpperHex[(b \div 16) + 1], UpperHex[(b % 16) + 1]>>

\* the concatenation of the strings of ss, with sep between them
RECURSIVE Join(_, _)
Join(ss, sep) ==
    IF ss = <<>> THEN <<>>
    ELSE IF Len(ss) = 1 THEN Head(ss)
    ELSE Head(ss) \o sep \o Join(Tail(ss), sep)

PercentString(data) == Join([i \in 1..Len(data) |-> PercentByte(data[i])], <<>>)

\* C24: the URL is the announce URL, '?', and the parameters info_hash,
\* peer_id, port, uploaded, downloaded, left, compact in that order joined
\* by '&'; the bytes of info_hash and peer_id are themselves when unreserved
\* and %XX in upper-case hex otherwise; compact is 1.
C24_UrlParameters ==
    op = "url" =>
        output = input.announce \o <<63>>
                 \o Join(<<InfoHashEq \o PercentString(input.self.info_hash),
                           PeerIdEq \o PercentString(input.self.peer_id),
                           PortEq \o DecimalString(input.self.port),
                           UploadedEq \o DecimalString(input.self.uploaded),
                           DownloadedEq \o DecimalString(input.self.downloaded),
                           LeftEq \o DecimalString(input.self.left),
                           CompactEq \o <<49>>>>, <<38>>)

\* "http://bttracker.debian.org:6969/announce?info_hash=%D8%F79%CE%C3%28%95l
\* %CC%5B%BF%1F%86%D9%FD%CF%DB%A8%CE%B6&peer_id=00112233445566778899
\* &port=6881&uploaded=0&downloaded=0&left=351272960&compact=1"
DebianUrl ==
    <<104, 116, 116, 112, 58, 47, 47, 98, 116, 116, 114, 97, 99, 107, 101,
    114, 46, 100, 101, 98, 105, 97, 110, 46, 111, 114, 103, 58, 54, 57, 54,
    57, 47, 97, 110, 110, 111, 117, 110, 99, 101, 63, 105, 110, 102, 111,
    95, 104, 97, 115, 104, 61, 37, 68, 56, 37, 70, 55, 57, 37, 67, 69, 37,
    67, 51, 37, 50, 56, 37, 57, 53, 108, 37, 67, 67, 37, 53, 66, 37, 66, 70,
    37, 49, 70, 37, 56, 54, 37, 68, 57, 37, 70, 68, 37, 67, 70, 37, 68, 66,
    37, 65, 56, 37, 67, 69, 37, 66, 54, 38, 112, 101, 101, 114, 95, 105,
    100, 61, 48, 48, 49, 49, 50, 50, 51, 51, 52, 52, 53, 53, 54, 54, 55, 55,
    56, 56, 57, 57, 38, 112, 111, 114, 116, 61, 54, 56, 56, 49, 38, 117,
    112, 108, 111, 97, 100, 101, 100, 61, 48, 38, 100, 111, 119, 110, 108,
    111, 97, 100, 101, 100, 61, 48, 38, 108, 101, 102, 116, 61, 51, 53, 49,
    50, 55, 50, 57, 54, 48, 38, 99, 111, 109, 112, 97, 99, 116, 61, 49>>

\* the URL of tests::test_build_tracker_url is built
C24_Witness ==
    /\ op = "url"
    /\ input.self.left = 351272960
    /\ input.self.info_hash[1] = 216
    /\ output = DebianUrl

\* C25 (as claimed): http:// and https:// URLs go to the HTTP announce,
\* udp://host:port/announce to the UDP announce, and another scheme or no
\* "://" is an error.
C25_SchemeDispatch ==
    op = "get_addr" =>
        LET sp == SplitOnce(input, SchemeSep) IN
        /\ (sp.found /\ sp.left \in {SchemeHttp, SchemeHttp \o <<115>>})
              => output = "Http"
        /\ input = UrlUdp => output = "Udp"
        /\ (~sp.found \/ sp.left \notin {SchemeHttp, SchemeHttp \o <<115>>, SchemeUdp})
              => output \notin {"Http", "Udp"}

\* C26 (as claimed): the bytes Message::encode writes start with the length
\* payload length + 1 in big-endian order, and Message::decode reads from
\* them the id and the payload that were encoded.
C26_EncodeDecodeRoundTrip ==
    op = "encode" =>
        /\ Take(output, 4) = U32BE(U32Of(Len(input.payload) + 1))
        /\ \A c \in BOOLEAN :
              MessageDecode(output, c) = Decoded(input.id, input.payload, <<>>)

\* C27 (as claimed): Message::decode of a stream that starts with the length
\* prefix 0 does not fail and leaves the stream at the byte after the
\* prefix.
C27_KeepAliveSkipped ==
    (op = "decode" /\ Len(input.buf) >= 4 /\ Take(input.buf, 4) = <<0, 0, 0, 0>>)
        => /\ output.outcome = "ok"
           /\ output.payload = <<>>
           /\ output.rest = Drop(input.buf, 4)

\* Message::decode of a frame with an id byte above 8 returns its payload
\* and leaves the stream at the first byte of the next frame
UnknownIdsDrained ==
    \A id \in {9, 10, 200, 255}, payload \in SeqsUpTo({0, 7}, MaxStream),
       c \in BOOLEAN :
       LET following == Frame(1, <<>>)
           m == MessageDecode(Frame(id, payload) \o following, c)
       IN  /\ m.outcome = "ok"
           /\ m.payload = payload
           /\ m.rest = following

\* C28: a message with an id outside 0..8 is decoded with its payload up to
\* the frame boundary, and a step of participate that reads it changes
\* nothing: not choked, not the block in flight, not the result channel, not
\* the state of the session.
C28_UnknownIdIgnored ==
    [][/\ UnknownIdsDrained
       /\ \A p \in Peers :
             (WaitUnchoke(p, UnknownIdMsg) \/ AwaitPiece(p, UnknownIdMsg))
                => UNCHANGED vars]_vars

\* a participant that waits for a block may read a message with an id
\* outside 0..8, after another block was delivered
C28_Witness ==
    \E p \in Peers :
       /\ InFlight(p)
       /\ delivered # {}
       /\ UnknownIdMsg.id = "Error"
       /\ UnknownIdMsg \in PieceReads(part[p].npiece, piece_length(piece),
                                      part[p].block)
       /\ ENABLED AwaitPiece(p, UnknownIdMsg)

\* C29 (as claimed): Peer::new makes no session when the 68 bytes received
\* start with another byte than 19 or go on with another string than
\* "BitTorrent protocol".
C29_BadHandshakeRejected ==
    (/\ op = "Peer::new"
     /\ Len(input.reply) >= 68
     /\ \/ input.reply[1] # 19
        \/ SubSeq(input.reply, 2, 20) # Protocol)
        => output.outcome # "ok"

\* C30: Peer::new makes a session only if the first message after the
\* handshake has the id Bitfield (5); the session has the payload of that
\* message as its bitfield and is choked; a first message with another id
\* makes no session.
C30_FirstMessageBitfield ==
    op = "Peer::new" =>
        LET r == input.reply IN
        /\ output.outcome = "ok" =>
              /\ Len(r) >= 73
              /\ r[73] = 5
              /\ output.bitfield.payload = SubSeq(r, 74, 72 + r[72])
              /\ Len(r) >= 72 + r[72]
              /\ output.choked
        /\ (Len(r) >= 73 /\ r[73] # 5) => output.outcome # "ok"

\* a session was made from a Bitfield message of two bytes
C30_Witness ==
    /\ op = "Peer::new"
    /\ Len(input.reply) >= 73
    /\ input.reply[73] = 5
    /\ output.outcome = "ok"
    /\ output.bitfield.payload = <<128, 255>>
    /\ output.choked

\* the bits of a byte array, the most significant bit of each byte first
BitString(b) ==
    [k \in 1..(8 * Len(b)) |->
        (b[((k - 1) \div 8) + 1] \div (2 ^ (7 - ((k - 1) % 8)))) % 2]

\* C31: has_piece(b, i) is true exactly when i < 8 * len(b) and bit
\* (7 - i mod 8) of b[i div 8] is 1, the most significant bit of byte 0
\* being piece 0; an index at or beyond 8 * len(b) gives false, not a panic.
C31_HasPieceMsbFirst ==
    op = "has_piece" =>
        /\ output \in BOOLEAN
        /\ output = (/\ input.piece_i < 8 * Len(input.payload)
                     /\ BitString(input.payload)[input.piece_i + 1] = 1)

\* piece 9 is asked of the two bytes 0x00 0x40, and piece 16 of the same
\* two bytes
C31_Witness ==
    /\ op = "has_piece"
    /\ input.payload = <<0, 64>>
    /\ \/ input.piece_i = 9 /\ output = TRUE
       \/ input.piece_i = 16 /\ output = FALSE

\* C32: the round of piece i uses piece_length = min(P, total_length - i*P)
\* and total_blocks = ceil(piece_length / 16384), the least number of blocks
\* of 16384 bytes that hold the piece; when total_length is a multiple of P
\* the last piece has length P, and a piece shorter than 16384 bytes has
\* exactly one block.
C32_PieceLengthAndBlocks ==
    piece # NoPieceYet =>
        /\ piece.index \in PieceIndices
        /\ piece_length(piece) =
              Min(t.plength, t.length - piece.index * t.plength)
        /\ total_blocks(piece) * 16384 >= piece_length(piece)
        /\ (total_blocks(piece) - 1) * 16384 < piece_length(piece)
        /\ (t.length % t.plength = 0 /\ piece.index = PieceCount(t) - 1)
              => piece_length(piece) = t.plength
        /\ piece_length(piece) < 16384 => total_blocks(piece) = 1

\* the round of the last piece of the torrent whose total is a multiple of
\* the piece length has spliced its one block
C32_Witness ==
    /\ phase = "verify"
    /\ t.length % t.plength = 0
    /\ piece.index = PieceCount(t) - 1
    /\ BufLen(all_blocks) = t.plength
    /\ total_blocks(piece) = 1

\* piece i has been popped and its round has committed it
IsCommitted(i) ==
    /\ i \notin { pi.index : pi \in need_pieces }
    /\ i = piece.index => phase \in {"pop", "ok"}

\* C35: every piece index is popped and committed at most once, its bytes go
\* to the range [i*P, i*P + piece_length_i) of the content buffer, the ranges
\* of different pieces do not overlap, and when download::all returns Ok
\* every index has been committed, the ranges covering [0, total_length):
\* the content buffer keeps its length, a piece that waits on the heap or
\* whose round is under way has the zeros of its range untouched, and a
\* committed piece has its own bytes in its range and nowhere else.
C35_PiecesCommittedOnce ==
    all_pieces # <<>> =>
        /\ BufLen(all_pieces) = t.length
        /\ \A i \in PieceIndices :
              Content(i) = IF IsCommitted(i)
                           THEN Norm(<<[len |-> PieceLen(t, i),
                                        val |-> TrueByte(i)]>>)
                           ELSE Zeros(PieceLen(t, i))
        /\ \A i, j \in PieceIndices :
              i < j => i * t.plength + PieceLen(t, i) <= j * t.plength
        /\ phase = "ok" => \A i \in PieceIndices : IsCommitted(i)

\* download::all has returned Ok for the torrent whose last piece is shorter
\* than the piece length
C35_Witness ==
    /\ phase = "ok"
    /\ PieceCount(t) = 2
    /\ PieceLen(t, 1) < t.plength
    /\ BufLen(all_pieces) = t.length

\* the peers whose participate future has returned an error
Errored(parts) == { p \in Peers : parts[p].pc = "ret_err" }

\* how many entries of the work queue are block index b
OnQueue(b) == Cardinality({ k \in 1..Len(tasks) : tasks[k] = b })

\* how many participants hold block index b in flight
Holders(b) == Cardinality({ p \in Peers : InFlight(p) /\ part[p].block = b })

\* C36: in a round where no participant has failed, every block index of the
\* piece is in exactly one place: once on the work queue, in flight with
\* exactly one participant, or delivered to the result channel; so the queue
\* holds at most total_blocks entries, has room whenever a participant holds
\* a block it may have to put back, and the result channel has received at
\* most total_blocks blocks.
C36_BlockInOnePlace ==
    (phase = "round" /\ Errored(part) = {}) =>
        /\ \A b \in BlockIndices :
              OnQueue(b) + Holders(b) + (IF b \in delivered THEN 1 ELSE 0) = 1
        /\ Range(tasks) \subseteq BlockIndices
        /\ delivered \subseteq BlockIndices
        /\ Len(tasks) <= total_blocks(piece)
        /\ (\E p \in Peers : InFlight(p)) => Len(tasks) < total_blocks(piece)
        /\ Len(done) <= Cardinality(delivered)

\* in a round of a piece of several blocks no participant has failed, one
\* has put its block back on the queue after a Choke and waits for an
\* Unchoke, and another one holds a block whose Request it has written
C36_Witness ==
    /\ PutBack
    /\ Errored(part) = {}
    /\ total_blocks(piece) > 1
    /\ \E p \in Peers : part[p].pc = "wait_unchoke"
    /\ \E p \in Peers : part[p].pc = "await_piece"

\* C37 (as claimed): whenever the drain loop ends with bytes_received equal
\* to piece_length, every block index of the piece was delivered, and the
\* piece buffer holds as many bytes as the piece is long.
C37_CompleteRoundTiles ==
    (phase = "verify" /\ bytes_received = piece_length(piece)) =>
        /\ delivered = BlockIndices
        /\ BufLen(all_blocks) = piece_length(piece)

\* the orders in which the blocks of q may arrive
Orders(q) ==
    { [k \in 1..Len(q) |-> q[f[k]]] :
        f \in { g \in [1..Len(q) -> 1..Len(q)] :
                  \A j, k \in 1..Len(q) : j # k => g[j] # g[k] } }

\* C34 (as claimed): for a fixed set of delivered blocks of one piece, the
\* piece buffer at the end of the round is the same for every order in which
\* the blocks arrive on the result channel.
C34_ArrivalOrderIrrelevant ==
    op = "drain" =>
        \A q \in Orders(input.arrivals) :
           LET other == DrainLoop(DrainStart(input.piece_length),
                                  input.piece_length, q)
           IN  (output.outcome = "complete" /\ other.outcome = "complete")
                  => other.all_blocks = output.all_blocks

\* the sum of the lengths of the first n files
LengthBefore(files, n) == TotalLength(SubSeq(files, 1, n))

\* C39 (as claimed): iterating a Downloaded yields one DownloadedFile per
\* entry of files, in order, the k-th with the slice of the content buffer
\* that starts at the sum of the lengths of the files before it and has the
\* k-th file's length.
C39_FileSlicesConsecutive ==
    op = "into_iter" =>
        /\ Len(output) = Len(input.files)
        /\ \A k \in 1..Len(output) :
              /\ output[k].file = input.files[k]
              /\ output[k].bytes =
                    SubSeq(input.bytes,
                           LengthBefore(input.files, k - 1) + 1,
                           LengthBefore(input.files, k))

\* y is the u64 after x: some limb is one greater, the limbs below it went
\* from the greatest value to zero, the limbs above it are the same
IsNextU64(x, y) ==
    \E k \in 1..4 :
       /\ y[k] = x[k] + 1
       /\ \A j \in 1..4 : j < k => y[j] = x[j]
       /\ \A j \in 1..4 : j > k => (x[j] = 65535 /\ y[j] = 0)

\* x <= y on u64, limb by limb from the most significant
LeqU64(x, y) ==
    \/ x = y
    \/ \E k \in 1..4 : x[k] < y[k] /\ \A j \in 1..4 : j < k => x[j] = y[j]

\* C40: from an initialised POT_SEQ, a successful save_pot moves POT_SEQ to
\* the next u64 and stores the pot under it, an id no pot was stored under,
\* every other entry of POTS staying as it was; POT_SEQ is then the greatest
\* stored id; a save_pot whose increment would overflow u64 fails, and a
\* failed save_pot changes neither POT_SEQ nor POTS.
C40_SavePotSequence ==
    /\ [](POT_SEQ # Absent =>
            /\ \A id \in DOMAIN POTS : LeqU64(id, POT_SEQ)
            /\ POTS # <<>> => POT_SEQ \in DOMAIN POTS)
    /\ [][(POT_SEQ # Absent /\ calls' = calls + 1) =>
            IF call'.result = "Ok"
            THEN /\ IsNextU64(POT_SEQ, POT_SEQ')
                 /\ POT_SEQ' \notin DOMAIN POTS
                 /\ DOMAIN POTS' = (DOMAIN POTS) \cup {POT_SEQ'}
                 /\ POTS'[POT_SEQ'] = call'.pot
                 /\ \A id \in DOMAIN POTS : POTS'[id] = POTS[id]
            ELSE /\ POT_SEQ = <<65535, 65535, 65535, 65535>>
                 /\ POT_SEQ' = POT_SEQ
                 /\ POTS' = POTS]_pvars

\* two pots were saved under the two greatest ids of u64, the increment
\* carrying over no limb and then failing: the third call returned an error
C40_Witness ==
    /\ calls = 3
    /\ call.result = "Err"
    /\ POT_SEQ = <<65535, 65535, 65535, 65535>>
    /\ Cardinality(DOMAIN POTS) = 3

\* C38 (as claimed): when the round drops a session's participate future the
\* stream is at a message boundary, and the first Message::decode of the
\* session in a round begins at the first byte of a length prefix.
C38_DroppedAtBoundary ==
    /\ fut = "none" => consumed \in boundaries
    /\ first_read # -1 => first_read \in boundaries

\* C33 (as claimed): once a participate call of a session has ended with an
\* error in some round, the session is not asked to participate in the round
\* of a later piece: no participate future of it exists from then on.
C33_LostPeerNotAskedAgain == lost_session => fut = "none"

====
